---------------------------- MODULE Spec2Model ----------------------------
(***************************************************************************)
(* Model of the embedded test stand: the LPC845 test-target firmware (one  *)
(* cooperative idle loop preempted by interrupt handlers on a single core) *)
(* and the host-side Target API of the test suites.                        *)
(*                                                                         *)
(* Firmware scheduling: a handler runs to completion as one action; the    *)
(* idle loop advances one step at a time and only when no handler is       *)
(* runnable (an enabled pending interrupt preempts thread mode).  Hardware *)
(* events (a byte shifted in, a SysTick wrap) may happen at any time.      *)
(***************************************************************************)
EXTENDS Naturals, Sequences, FiniteSets

(***************************************************************************)
(* Bounds of the exploration (environment budgets).                        *)
(***************************************************************************)
MaxCmds == 1
MaxFrames == 3
MaxUsartBytes == 1
MaxSyncBytes == 1
MaxTicks == 2
MaxDmaBurst == 40
MaxOps == 3
MaxTelemetry == 1
MaxEchoCmds == 7
EchoLen == 2
MaxForwarded == 3
WaitTimeout == 1
MaxDataLen == 4
MaxRequests == 2
MaxFrameDataLen == 1
MaxStream == 7
MaxSends == 2
MaxExcess == 1
MaxReloads == 2

\* Lengths of the buffers the callers of Request::send and Request::receive
\* provide: a request with MaxDataLen bytes does not fit the first, one with
\* a byte less does not fit the second.
SEND_BUF_LEN == 7
RECEIVE_BUF_LEN == 6

\* Time is followed until both the timeout of the call and the timeout of
\* a receive begun just before it have elapsed.
MaxElapsed == 2 * WaitTimeout + 1

\* Capacity explored for the receive buffers of firmware_lib::usart, whose
\* declaration is outside this source tree.
RX_QUEUE_CAP == 4

(***************************************************************************)
(* Program constants.                                                      *)
(***************************************************************************)
DMA_QUEUE_N == 32
DMA_BUFFER_LEN == 13
SCRATCH_LEN == 16

\* A queue that cannot hold one transfer.
DmaQueueCapacity_small == DMA_BUFFER_LEN - 1

\* heapless::spsc::Queue<u8, N> keeps one slot free: it holds N - 1 items.
DmaQueueCapacity == DMA_QUEUE_N - 1

VARIABLES
    pc,             \* position of the idle loop
    primask,        \* TRUE inside interrupt::free (handlers masked)
    sleep,          \* the build has feature "sleep" (wfi compiled in)
    host_wire,      \* bytes on their way from the host to USART0
    host_rxdata,    \* USART0 receive register (RXRDY interrupt while full)
    host_queue,     \* host-facing receive buffer, filled by usart0
    host_consumed,  \* length of the frame process_message copied out
    frames_done,    \* frames process_message has decoded so far
    cmds_sent,      \* commands the host has written so far
    usart_rxdata,   \* USART1 receive register
    usart_queue,    \* USART1 receive buffer, filled by usart1
    usart_arrived,  \* bytes that arrived on USART1
    addr_bytes,     \* the bytes WaitForAddress has read
    sync_rxdata,    \* USART3 receive register
    sync_queue,     \* USART3 receive buffer, filled by usart3
    sync_arrived,   \* bytes that arrived on USART3
    dma_arrived,    \* bytes that arrived on USART2 (labelled 1, 2, ...)
    usart2_rxdata,  \* USART2 receive register (byte waiting for the DMA)
    dma_buffer,     \* bytes the running transfer has stored in DMA_BUFFER
    usart_dma_rx_transfer, \* "Started", "Waiting" (dma0 in wait()) or "None"
    dma_irq,        \* DMA0 interrupt pending (channel 4 complete)
    dma_queue,      \* DMA_QUEUE, dma0 -> idle
    dma_forwarded,  \* bytes forwarded as UsartReceive{Dma}, in order
    host_tx,        \* messages sent to the host in this loop iteration
    dispatched,     \* command dispatched in this iteration, or NoCmd
    tx_before,      \* Len(host_tx) when that dispatch began
    syst_enabled,   \* SysTick counter and interrupt enabled
    syst_pending,   \* SysTick exception pending
    syst_taken,     \* SysTick exceptions taken so far
    ticks,          \* SysTick wraps so far
    blue,           \* timer output pin
    timer_cmd,      \* last timer command dispatched
    stray_toggles,  \* toggles of blue while the timer was not started
    green,          \* level of the output pin PIO1_0
    addr_detect,    \* USART1 address detection is on
    flow,           \* USART1 hardware flow control: RTS and CTS throttling
    slots,          \* the resources present in their Option slots
    usart_dma_tx,   \* the USART1 transmit transfer: "idle" or "started"
    red_int,        \* PIN_INT0 pending: an edge flag of the input pin is set
    panicked,       \* a panic was raised
    h2t,            \* commands written by the host, not yet served
    t2h,            \* messages written by the target, not yet received
    host_pc,        \* "ready", "receive" and "wait_receive" (blocked in
                    \* Conn::receive), "wait_check", "aborted"
    host_op,        \* the command of the Target operation last called
    host_result,    \* what that operation returned
    host_value,     \* <<v>> when it returned Ok(v), else <<>>
    guard,          \* the live guard: "TimerInterrupt", "PwmSignal" or "none"
    guard_log,      \* the sends of start and stop commands, with their outcome
    exit_path,      \* how the scope of the guard last dropped was left
    ops,            \* Conn::send calls so far
    telemetry,      \* unsolicited UsartReceive messages so far
    wait_data,      \* the data wait_for_usart_rx* was called with
    wait_buf,       \* its local buf
    elapsed,        \* time since its `start`
    recv_elapsed,   \* time since its current Conn::receive began
    wait_late,      \* the timeout elapsed with the data not yet received
    request,        \* test-lib: the Request given to Request::send
    send_result,    \* what Request::send returned
    stream,         \* all bytes written to the line so far
    unread,         \* the bytes of it that Request::receive has not read yet
    rx_buf,         \* the buf of Request::receive
    rx_i,           \* its index i
    rx_result,      \* what it returned
    sent,           \* the requests sent one after another, in order
    rx_log,         \* the earlier calls of Request::receive: what each
                    \* returned and the bytes read until then
    conn_buf,       \* host-lib: the accumulation buffer of the connection
    conn_msgs,      \* what the calls of Conn::receive returned, in order
    scratch,        \* the static DMA_BUFFER of the SendUsart Dma arm
    dma_sent,       \* the data of the SendUsart Dma commands dispatched
    dma_line,       \* the bytes they transmitted on USART1
    dma_fault,      \* the arm panicked
    period_ms,      \* the period of the last StartTimerInterrupt
    rvr,            \* the SysTick reload value register
    reload_fault,   \* the multiplication panicked (overflow checks on)
    reloads         \* StartTimerInterrupt commands dispatched

fwvars == <<pc, primask, sleep, host_wire, host_rxdata, host_queue,
            host_consumed, frames_done, cmds_sent, usart_rxdata, usart_queue,
            usart_arrived, addr_bytes, sync_rxdata, sync_queue, sync_arrived,
            dma_arrived, usart2_rxdata, dma_buffer, usart_dma_rx_transfer,
            dma_irq, dma_queue, dma_forwarded, host_tx, dispatched,
            tx_before, syst_enabled, syst_pending, syst_taken, ticks, blue,
            timer_cmd, stray_toggles,
            green, addr_detect, flow, slots, usart_dma_tx, red_int,
            panicked>>

waitvars == <<wait_data, wait_buf, elapsed, recv_elapsed, wait_late>>

hostvars == <<h2t, t2h, host_pc, host_op, host_result, host_value, guard,
              guard_log, exit_path, ops, telemetry, waitvars>>

connvars == <<conn_buf, conn_msgs>>

scratchvars == <<scratch, dma_sent, dma_line, dma_fault>>

reloadvars == <<period_ms, rvr, reload_fault, reloads>>

libvars ==
    <<request, send_result, stream, unread, rx_buf, rx_i, rx_result, sent,
      rx_log, connvars, scratchvars, reloadvars>>

vars == <<fwvars, hostvars, libvars>>

(***************************************************************************)
(* Message schema (crate lpc845_messages, used by firmware and test suite) *)
(***************************************************************************)
NoCmd == [type |-> "None", mode |-> "None"]

Cmd(t, m) == [type |-> t, mode |-> m]

\* The HostToTarget variants, with their mode where they carry one.
Variants ==
    << Cmd("SendUsart", "Regular"), Cmd("SendUsart", "Dma"),
       Cmd("SendUsart", "FlowControl"), Cmd("SendUsart", "Sync"),
       Cmd("WaitForAddress", "None"),
       Cmd("SetPin", "High"), Cmd("SetPin", "Low"),
       Cmd("ReadPin", "None"),
       Cmd("StartTimerInterrupt", "None"), Cmd("StopTimerInterrupt", "None"),
       Cmd("StartI2cTransaction", "Regular"), Cmd("StartI2cTransaction", "Dma"),
       Cmd("StartSpiTransaction", "Regular"), Cmd("StartSpiTransaction", "Dma"),
       Cmd("ReadAdc", "None"),
       Cmd("StartPwmSignal", "None"), Cmd("StopPwmSignal", "None") >>

HostToTarget == { Variants[i] : i \in 1..Len(Variants) }

\* A dispatch with an arm for every variant.
Supported_all(m) == TRUE

\* The variants the LPC845 firmware matches in its dispatch.
Supported(m) == m.type \notin {"ReadAdc", "StartPwmSignal", "StopPwmSignal"}

Levels == {"High", "Low"}
ReplyBytes == {7}

UsartReceive(mode, data) == [type |-> "UsartReceive", mode |-> mode, data |-> data]
ReadPinResult(level) == [type |-> "ReadPinResult", level |-> level]
I2cReply(b) == [type |-> "I2cReply", value |-> b]
SpiReply(b) == [type |-> "SpiReply", value |-> b]
AdcValue(v) == [type |-> "AdcValue", value |-> v]

(***************************************************************************)
(* Framing: a frame is the nonzero tag of the variant followed by the      *)
(* terminator 0 (COBS keeps 0 out of the body of a frame).                 *)
(***************************************************************************)
Tag(m) == CHOOSE i \in 1..Len(Variants) : Variants[i] = m

Encode(m) == <<Tag(m), 0>>

Decode(frame) == Variants[frame[1]]

HasFrame(q) == \E i \in 1..Len(q) : q[i] = 0

FrameLen(q) == CHOOSE i \in 1..Len(q) : q[i] = 0 /\ \A j \in 1..(i - 1) : q[j] # 0

(***************************************************************************)
(* firmware_lib::usart                                                     *)
(***************************************************************************)
\* RxInt::receive: store the bytes the hardware holds; a full buffer fails.
RxInt_receive_ok(q, rx) == Len(q) + Len(rx) <= RX_QUEUE_CAP

RxInt_receive(q, rx) == q \o rx

\* RxIdle::can_process for the raw pipelines: data is waiting.
can_process_raw(q) == q # <<>>

\* RxIdle::can_process for the host pipeline: a complete frame is waiting.
can_process(q) == HasFrame(q)

\* A clear_buf that empties the whole buffer, whatever was consumed.
clear_buf_whole(q, consumed) == <<>>

\* RxIdle::clear_buf: drop the consumed portion of the buffer.
clear_buf(q, consumed) == SubSeq(q, consumed + 1, Len(q))

\* RxIdle::process_raw: hand all waiting bytes to the closure, if any.
process_raw(mode, q) == IF q = <<>> THEN <<>> ELSE <<UsartReceive(mode, q)>>

(***************************************************************************)
(* test-lib: Request, its framing (postcard, COBS), send and receive       *)
(***************************************************************************)
Bytes == {0, 1, 2}

NoRequest == [type |-> "None", data |-> <<>>]

\* Request::SendUsart(data)
SendUsart(data) == [type |-> "SendUsart", data |-> data]

RECURSIVE SeqsUpTo(_)
SeqsUpTo(n) ==
    IF n = 0 THEN {<<>>}
    ELSE LET shorter == SeqsUpTo(n - 1)
         IN  shorter \cup { Append(q, b) : q \in shorter, b \in Bytes }

Requests == { SendUsart(d) : d \in SeqsUpTo(MaxDataLen) }

NoResult == [kind |-> "none", request |-> NoRequest]

Ok(r) == [kind |-> "Ok", request |-> r]

Err(e) == [kind |-> e, request |-> NoRequest]

\* postcard's encoding of a Request: the index of the variant, the length
\* of the slice, its bytes.
Serialize(r) == <<0, Len(r.data)>> \o r.data

\* postcard's decoding: trailing bytes are left alone.
Deserialize(p) ==
    IF Len(p) < 2 \/ p[1] # 0 \/ Len(p) < 2 + p[2] THEN Err("Postcard")
    ELSE Ok(SendUsart(SubSeq(p, 3, 2 + p[2])))

\* Index of the first 0 of p, Len(p) + 1 when there is none.
FirstZero(p) ==
    IF \E k \in 1..Len(p) : p[k] = 0
    THEN CHOOSE k \in 1..Len(p) : p[k] = 0 /\ \A j \in 1..(k - 1) : p[j] # 0
    ELSE Len(p) + 1

\* COBS: every run that ends at a 0 (or at the end) is written as its
\* length plus one, followed by its bytes.
RECURSIVE cobs_encode(_)
cobs_encode(p) ==
    LET k == FirstZero(p)
    IN  <<k>> \o SubSeq(p, 1, k - 1)
            \o (IF k > Len(p) THEN <<>>
                ELSE cobs_encode(SubSeq(p, k + 1, Len(p))))

\* COBS decoding of a frame without its terminator.
RECURSIVE cobs_decode(_)
cobs_decode(e) ==
    IF e = <<>> \/ e[1] = 0 \/ e[1] > Len(e)
    THEN [ok |-> FALSE, bytes |-> <<>>]
    ELSE LET run == SubSeq(e, 2, e[1])
             rest == SubSeq(e, e[1] + 1, Len(e))
             tail == cobs_decode(rest)
         IN  IF rest = <<>> THEN [ok |-> TRUE, bytes |-> run]
             ELSE [ok |-> tail.ok, bytes |-> run \o <<0>> \o tail.bytes]

\* postcard::to_slice_cobs: the encoded message and the terminator.
to_slice_cobs(r) == cobs_encode(Serialize(r)) \o <<0>>

\* postcard::from_bytes_cobs on a buffer that starts with one frame.
from_bytes_cobs(buf) ==
    LET decoded == cobs_decode(SubSeq(buf, 1, FirstZero(buf) - 1))
    IN  IF decoded.ok THEN Deserialize(decoded.bytes) ELSE Err("Postcard")

\* A check that leaves the last element of buf unused.
BufferTooSmall_early(i, len) == i + 1 >= len

\* `if i >= buf.len()`
BufferTooSmall(i, len) == i >= len

\* A store that forgets the index.
store_first(buf, i, b) == [buf EXCEPT ![1] = b]

\* `buf[i] = b` (the index counts from 0)
store(buf, i, b) == [buf EXCEPT ![i + 1] = b]

\* Request::send: serialize into buf and write the frame whole; a buf
\* that is too short is an error of postcard and nothing is written.  The
\* writer is taken to accept the bytes.
Request_send(r) ==
    /\ request = NoRequest
    /\ stream = <<>>
    /\ request' = r
    /\ IF Len(to_slice_cobs(r)) <= SEND_BUF_LEN
       THEN /\ send_result' = "Ok"
            /\ stream' = to_slice_cobs(r)
            /\ unread' = to_slice_cobs(r)
       ELSE /\ send_result' = "Postcard"
            /\ UNCHANGED <<stream, unread>>
    /\ UNCHANGED <<fwvars, hostvars, reloadvars, scratchvars, connvars, rx_buf, rx_i, rx_result, sent, rx_log>>

\* A byte of any value is put on the line.
RawByte(b) ==
    /\ request = NoRequest
    /\ Len(stream) < MaxStream
    /\ stream' = Append(stream, b)
    /\ unread' = Append(unread, b)
    /\ UNCHANGED <<fwvars, hostvars, reloadvars, scratchvars, connvars, request, send_result, rx_buf, rx_i,
                   rx_result, sent, rx_log>>

\* One turn of the loop of Request::receive: the check of i, the blocking
\* read of one byte into buf[i], and after the terminator the decoding.
\* Reads are taken to succeed.
Request_receive ==
    /\ rx_result = NoResult
    /\ IF BufferTooSmall(rx_i, RECEIVE_BUF_LEN)
       THEN /\ rx_result' = Err("BufferTooSmall")
            /\ UNCHANGED <<unread, rx_buf, rx_i>>
       ELSE /\ unread # <<>>
            /\ unread' = Tail(unread)
            /\ rx_buf' = store(rx_buf, rx_i, Head(unread))
            /\ IF Head(unread) = 0
               THEN /\ rx_result' = from_bytes_cobs(rx_buf')
                    /\ UNCHANGED rx_i
               ELSE /\ rx_i' = rx_i + 1
                    /\ UNCHANGED rx_result
    /\ UNCHANGED <<fwvars, hostvars, reloadvars, scratchvars, connvars, request, send_result, stream, sent,
                   rx_log>>

\* A call that goes on where the last one stopped.
StartIndex_kept(i) == i

\* `let mut i = 0`
StartIndex(i) == 0

\* Short requests: their frames fit the buffer of Request::receive.
FittingRequests == { SendUsart(d) : d \in SeqsUpTo(MaxFrameDataLen) }

\* Request::send, called once more: the frame follows the earlier ones on
\* the line.
Request_send_next(r) ==
    /\ request = NoRequest
    /\ Len(sent) < MaxRequests
    /\ Len(to_slice_cobs(r)) <= SEND_BUF_LEN
    /\ sent' = Append(sent, r)
    /\ stream' = stream \o to_slice_cobs(r)
    /\ unread' = unread \o to_slice_cobs(r)
    /\ UNCHANGED <<fwvars, hostvars, reloadvars, scratchvars, connvars, request, send_result, rx_buf, rx_i,
                   rx_result, rx_log>>

\* Request::receive is called again after it returned, with the same buf.
Request_receive_again ==
    /\ rx_result # NoResult
    /\ Len(rx_log) < MaxRequests
    /\ rx_log' = Append(rx_log, [result |-> rx_result,
                                 read |-> Len(stream) - Len(unread)])
    /\ rx_i' = StartIndex(rx_i)
    /\ rx_result' = NoResult
    /\ UNCHANGED <<fwvars, hostvars, reloadvars, scratchvars, connvars, request, send_result, stream, unread,
                   rx_buf, sent>>

(***************************************************************************)
(* The SendUsart Dma arm of idle with the data of the command              *)
(***************************************************************************)
\* The data of the commands explored: every length up to past the end of
\* the scratch buffer, with two contents for each.
SendData ==
    { [k \in 1..n |-> 100 * v + k] :
          n \in 0..(SCRATCH_LEN + MaxExcess), v \in {0, 1} }

\* `dma_buffer[..data.len()].copy_from_slice(data)`
copy_from_slice(buffer, data) ==
    [k \in 1..Len(buffer) |-> IF k <= Len(data) THEN data[k] ELSE buffer[k]]

\* A transfer of the buffer whole.
write_all_whole(buffer, n) == buffer

\* `write_all(&dma_buffer[..data.len()], ..)`: the bytes the transfer
\* puts on the line.
write_all(buffer, n) == SubSeq(buffer, 1, n)

\* The arm for one command: the slice of the scratch buffer panics when
\* data is longer than the buffer; the transfer either completes or its
\* wait() reports an error and unwrap panics.
SendUsartDma(data) ==
    /\ ~dma_fault
    /\ Len(dma_sent) < MaxSends
    /\ dma_sent' = Append(dma_sent, data)
    /\ IF Len(data) > Len(scratch)
       THEN /\ dma_fault' = TRUE
            /\ UNCHANGED <<scratch, dma_line>>
       ELSE /\ scratch' = copy_from_slice(scratch, data)
            /\ \E ok \in BOOLEAN :
                   IF ok
                   THEN /\ dma_line' =
                               dma_line \o write_all(scratch', Len(data))
                        /\ UNCHANGED dma_fault
                   ELSE /\ dma_fault' = TRUE
                        /\ \E n \in 0..Len(data) :
                               dma_line' =
                                   dma_line \o write_all(scratch', n)
    /\ UNCHANGED <<fwvars, hostvars, reloadvars, connvars, request, send_result, stream,
                   unread, rx_buf, rx_i, rx_result, sent, rx_log>>

(***************************************************************************)
(* The StartTimerInterrupt arm of idle with its period                     *)
(***************************************************************************)
\* A u32 as its two 16-bit halves.
U32(hi, lo) == [hi |-> hi, lo |-> lo]

\* Periods around the values where the product leaves 24 and 32 bits:
\* 2796 * 6000 < 2^24 <= 2797 * 6000, and with 715827 = 10 * 65536 + 60467,
\* 715827 * 6000 < 2^32 <= 715828 * 6000.
Periods ==
    { U32(hi, lo) :
          hi \in {0, 1, 10, 65535},
          lo \in {0, 1, 2, 10, 1000, 2796, 2797, 2798, 60467, 60468, 65535} }

\* `period_ms * 6000` in u32 arithmetic: the low 32 bits of the product,
\* and whether the product left them.
times_6000(p) ==
    LET low == p.lo * 6000
        high == p.hi * 6000 + (low \div 65536)
    IN  [value |-> U32(high % 65536, low % 65536),
         overflow |-> high \div 65536 > 0]

\* systick.set_reload: the reload register holds 24 bits.
set_reload(v) == U32(v.hi % 256, v.lo)

\* The arm for one command.  When the product overflows, a build with
\* overflow checks panics and one without wraps.
StartTimerInterrupt(p) ==
    /\ ~reload_fault
    /\ reloads < MaxReloads
    /\ reloads' = reloads + 1
    /\ period_ms' = p
    /\ \E checked \in BOOLEAN :
           IF times_6000(p).overflow /\ checked
           THEN /\ reload_fault' = TRUE
                /\ UNCHANGED rvr
           ELSE /\ rvr' = set_reload(times_6000(p).value)
                /\ UNCHANGED reload_fault
    /\ UNCHANGED <<fwvars, hostvars, connvars, scratchvars, request,
                   send_result, stream, unread, rx_buf, rx_i, rx_result,
                   sent, rx_log>>

(***************************************************************************)
(* host-lib: Conn::receive and its accumulation buffer                     *)
(***************************************************************************)
\* A valid frame is written to the host's channel after the earlier ones;
\* the message in it is modelled by a Request and its encoding.
ChannelFrame(r) ==
    /\ Len(sent) < MaxRequests
    /\ sent' = Append(sent, r)
    /\ stream' = stream \o to_slice_cobs(r)
    /\ unread' = unread \o to_slice_cobs(r)
    /\ UNCHANGED <<fwvars, hostvars, reloadvars, scratchvars, connvars, request, send_result, rx_buf,
                   rx_i, rx_result, rx_log>>

\* A receive that drops what was read past the terminator.
Retained_none(buf) == <<>>

\* The bytes of buf past the terminator of its first frame.
Retained(buf) == SubSeq(buf, FirstZero(buf) + 1, Len(buf))

\* One read of the channel inside Conn::receive, made while the buffer
\* holds no full frame: the n bytes available are added to the buffer.
Conn_read(n) ==
    /\ ~HasFrame(conn_buf)
    /\ n <= Len(unread)
    /\ conn_buf' = conn_buf \o SubSeq(unread, 1, n)
    /\ unread' = SubSeq(unread, n + 1, Len(unread))
    /\ UNCHANGED <<fwvars, hostvars, reloadvars, scratchvars, conn_msgs, request, send_result, stream,
                   rx_buf, rx_i, rx_result, sent, rx_log>>

\* Conn::receive returns: the first frame of the buffer is decoded, what
\* follows it stays in the buffer for the next call.
Conn_receive ==
    /\ HasFrame(conn_buf)
    /\ conn_msgs' = Append(conn_msgs,
                           from_bytes_cobs(SubSeq(conn_buf, 1,
                                                  FirstZero(conn_buf))))
    /\ conn_buf' = Retained(conn_buf)
    /\ UNCHANGED <<fwvars, hostvars, reloadvars, scratchvars, request, send_result, stream, unread,
                   rx_buf, rx_i, rx_result, sent, rx_log>>

\* Conn::receive fails: the timeout elapsed with no full frame in the
\* buffer, which keeps the bytes it has.
Conn_receive_timeout ==
    /\ ~HasFrame(conn_buf)
    /\ Len(conn_msgs) <= MaxRequests
    /\ conn_msgs' = Append(conn_msgs, Err("ReceiveTimeout"))
    /\ UNCHANGED <<fwvars, hostvars, reloadvars, scratchvars, conn_buf, request, send_result, stream,
                   unread, rx_buf, rx_i, rx_result, sent, rx_log>>

(***************************************************************************)
(* Dispatch of one host command (the match in idle)                        *)
(***************************************************************************)
\* A dispatch whose Dma arms of the I2C and SPI transactions send nothing.
Reply_regular_only(m, level, b) ==
    CASE m.type = "ReadPin" -> <<ReadPinResult(level)>>
      [] m = Cmd("StartI2cTransaction", "Regular") -> <<I2cReply(b)>>
      [] m = Cmd("StartSpiTransaction", "Regular") -> <<SpiReply(b)>>
      [] OTHER -> <<>>

\* The messages the dispatch of m sends to the host.
Reply(m, level, b) ==
    CASE m.type = "ReadPin" -> <<ReadPinResult(level)>>
      [] m.type = "StartI2cTransaction" -> <<I2cReply(b)>>
      [] m.type = "StartSpiTransaction" -> <<SpiReply(b)>>
      [] OTHER -> <<>>

\* A dispatch whose StopTimerInterrupt arm leaves SysTick as it is.
SystickAfter_stop_ignored(m, enabled) ==
    CASE m.type = "StartTimerInterrupt" -> TRUE
      [] OTHER -> enabled

\* SysTick counter and interrupt after the dispatch of m.
SystickAfter(m, enabled) ==
    CASE m.type = "StartTimerInterrupt" -> TRUE
      [] m.type = "StopTimerInterrupt" -> FALSE
      [] OTHER -> enabled

TimerCmdAfter(m, last) ==
    CASE m.type = "StartTimerInterrupt" -> "started"
      [] m.type = "StopTimerInterrupt" -> "stopped"
      [] OTHER -> last

\* A dispatch that looks for the next command right away.
BlockingPc_again(m) == "process_message"

\* Where the dispatch of m waits for its peripheral, if it does.
BlockingPc(m) ==
    CASE m = Cmd("SendUsart", "Sync") -> "sync_tx"
      [] m = Cmd("SendUsart", "Dma") -> "dma_tx"
      [] m = Cmd("SendUsart", "FlowControl") -> "flow_tx"
      [] m.type = "WaitForAddress" -> "wait_address"
      [] OTHER -> "clear_buf"

\* The resources idle moves out of their slots for a dispatch and puts back
\* after it.
AllSlots ==
    { "swm", "usart_tx", "usart_rts", "usart_rts_pin", "usart_cts",
      "usart_dma_chan", "i2c", "i2c_dma", "spi", "spi_rx_dma", "spi_tx_dma" }

\* USART1 without hardware flow control, and with RTS and CTS throttling.
FlowOff == [rts |-> FALSE, cts |-> FALSE]

FlowOn == [rts |-> TRUE, cts |-> TRUE]

\* A SetPin dispatch that can only drive the pin high.
GreenAfter_high_only(m, level) ==
    IF m.type = "SetPin" THEN "High" ELSE level

\* The output pin after the dispatch of m.
GreenAfter(m, level) ==
    IF m.type = "SetPin" THEN m.mode ELSE level

\* Flow control of USART1 while the dispatch of m transmits: enable_rts and
\* enable_cts_throttling for FlowControl.
FlowDuring(m, f) ==
    IF m = Cmd("SendUsart", "FlowControl") THEN FlowOn ELSE f

\* A FlowControl arm that leaves CTS throttling as it is.
FlowAfterTx_cts_left(f) == [rts |-> FALSE, cts |-> f.cts]

\* disable_rts and disable_cts_throttling after bwrite_all.
FlowAfterTx(f) == FlowOff

\* The transmit transfer after the dispatch of m: write_all(..).start().
DmaTxAfter(m, t) ==
    IF m = Cmd("SendUsart", "Dma") THEN "started" ELSE t

\* A hand-back that forgets the DMA channel.
HandBack_without_channel(s) == AllSlots \ {"usart_dma_chan"}

\* The slots after the closure has put every local back.
HandBack(s) == AllSlots

\* A dispatch that never puts its locals back.
SlotsAfter_moved_out(m, s) == {}

\* The slots when the dispatch of m leaves IdleDispatch: still moved out
\* while the command blocks.
SlotsAfter(m, s) ==
    IF BlockingPc(m) = "clear_buf" THEN HandBack(s) ELSE {}

\* An address wait that leaves address detection on.
stop_address_detection_skipped(d) == d

\* rx.usart.stop_address_detection()
stop_address_detection(d) == FALSE

\* What the dispatch of m unwraps: the result of a peripheral operation,
\* the result of sending the reply.
Failures(m) ==
    (IF m.type = "StartI2cTransaction" \/ m = Cmd("StartSpiTransaction", "Regular")
     THEN {"peripheral"} ELSE {})
    \cup (IF m.type \in {"ReadPin", "StartI2cTransaction", "StartSpiTransaction"}
          THEN {"send"} ELSE {})

Outcomes(m) == {"ok"} \cup Failures(m)

Toggle(level) == IF level = "High" THEN "Low" ELSE "High"

(***************************************************************************)
(* Variable groups                                                         *)
(***************************************************************************)
hostpipe == <<host_wire, host_rxdata, host_queue, host_consumed, frames_done,
              cmds_sent>>
usartpipe == <<usart_rxdata, usart_queue, usart_arrived, addr_bytes>>
syncpipe == <<sync_rxdata, sync_queue, sync_arrived>>
dmavars == <<dma_arrived, usart2_rxdata, dma_buffer, usart_dma_rx_transfer,
             dma_irq, dma_queue>>
txvars == <<host_tx, dispatched, tx_before>>
devices == <<green, addr_detect, flow, slots, usart_dma_tx, red_int>>
periph == <<devices, panicked>>
timervars == <<syst_enabled, syst_pending, syst_taken, ticks, blue,
               timer_cmd, stray_toggles>>

(***************************************************************************)
(* init                                                                    *)
(***************************************************************************)
FwInit ==
    /\ pc = "usart_rx"
    /\ primask = FALSE
    /\ sleep \in BOOLEAN
    /\ host_wire = <<>> /\ host_rxdata = <<>> /\ host_queue = <<>>
    /\ host_consumed = 0 /\ frames_done = 0 /\ cmds_sent = 0
    /\ usart_rxdata = <<>> /\ usart_queue = <<>> /\ usart_arrived = 0
    /\ addr_bytes = {}
    /\ sync_rxdata = <<>> /\ sync_queue = <<>> /\ sync_arrived = 0
    /\ dma_arrived = 0 /\ usart2_rxdata = <<>> /\ dma_buffer = <<>>
    /\ usart_dma_rx_transfer = "Started"
    /\ dma_irq = FALSE
    /\ dma_queue = <<>> /\ dma_forwarded = <<>>
    /\ host_tx = <<>> /\ dispatched = NoCmd /\ tx_before = 0
    /\ syst_enabled = FALSE /\ syst_pending = FALSE
    /\ syst_taken = 0 /\ ticks = 0
    /\ blue = "High"
    /\ timer_cmd = "none" /\ stray_toggles = 0
    /\ green = "High"
    /\ addr_detect = FALSE
    /\ flow = FlowOff
    /\ slots = AllSlots
    /\ usart_dma_tx = "idle"
    /\ red_int = FALSE
    /\ panicked = FALSE

HostInit ==
    /\ h2t = <<>> /\ t2h = <<>>
    /\ host_pc = "ready"
    /\ host_op = NoCmd
    /\ host_result = "none"
    /\ host_value = <<>>
    /\ guard = "none"
    /\ guard_log = <<>>
    /\ exit_path = "none"
    /\ ops = 0
    /\ telemetry = 0
    /\ wait_data = <<>> /\ wait_buf = <<>>
    /\ elapsed = 0 /\ recv_elapsed = 0
    /\ wait_late = FALSE

LibInit ==
    /\ request = NoRequest
    /\ send_result = "none"
    /\ stream = <<>> /\ unread = <<>>
    /\ rx_buf = [k \in 1..RECEIVE_BUF_LEN |-> 0]
    /\ rx_i = 0
    /\ rx_result = NoResult
    /\ sent = <<>>
    /\ rx_log = <<>>
    /\ conn_buf = <<>>
    /\ conn_msgs = <<>>
    /\ scratch = [k \in 1..SCRATCH_LEN |-> 0]
    /\ dma_sent = <<>>
    /\ dma_line = <<>>
    /\ dma_fault = FALSE
    /\ period_ms = U32(0, 0)
    /\ rvr = U32(0, 0)
    /\ reload_fault = FALSE
    /\ reloads = 0

Init == FwInit /\ HostInit /\ LibInit

(***************************************************************************)
(* Interrupt state                                                         *)
(***************************************************************************)
\* The input pin PIO1_2, wired to the output pin PIO1_0.
red == green

Halted == pc = "halt"

IrqPending ==
    \/ host_rxdata # <<>>
    \/ usart_rxdata # <<>>
    \/ sync_rxdata # <<>>
    \/ dma_irq
    \/ syst_pending
    \/ red_int

\* dma0 has taken the receive transfer and spins in wait() on a channel
\* that is still active.
Dma0Blocked == usart_dma_rx_transfer = "Waiting"

\* All handlers have the same priority: none preempts another.
HandlerRunnable == ~primask /\ ~Halted /\ ~Dma0Blocked /\ IrqPending

\* Thread mode executes only while no handler is active and no enabled
\* interrupt is pending.
IdleCanRun == ~Halted /\ ~Dma0Blocked /\ ~HandlerRunnable

\* A DMA channel raises DMA0 when its transfer completes only if its
\* interrupt is enabled and the transfer sets the A flag: init does both
\* for the receive channel and neither for any other.
RaisesDma0_any(channel) == TRUE

RaisesDma0(channel) == channel = "channel4"

\* The DMA channels the dispatch of m runs a transfer on.
DmaChannelsOf(m) ==
    CASE m = Cmd("SendUsart", "Dma") -> {"channel3"}
      [] m = Cmd("StartI2cTransaction", "Dma") -> {"channel15"}
      [] m = Cmd("StartSpiTransaction", "Dma") -> {"channel10", "channel11"}
      [] OTHER -> {}

\* The receive transfer has filled DMA_BUFFER: channel 4 is not active.
TransferComplete(buffer) == Len(buffer) = DMA_BUFFER_LEN

\* The flag of PIN_INT0 after the output pin went from level to next:
\* rising and falling edges of the wired input pin both set it.
EdgeAfter(flag, level, next) == flag \/ next # level

\* The bytes the environment puts on the receive lines, told apart by
\* their value: the i-th byte of USART2 is i, of USART1 100 + i, of USART3
\* 200 + i.
ByteOn(line, i) ==
    CASE line = "USART1" -> 100 + i
      [] line = "USART3" -> 200 + i
      [] OTHER -> i

LineOf(b) ==
    IF b > 200 THEN "USART3" ELSE IF b > 100 THEN "USART1" ELSE "USART2"

(***************************************************************************)
(* Hardware events                                                         *)
(***************************************************************************)
HostSendsCmd(m, limit) ==
    /\ ~Halted
    /\ cmds_sent < limit
    /\ host_wire' = host_wire \o Encode(m)
    /\ cmds_sent' = cmds_sent + 1
    /\ UNCHANGED <<pc, primask, sleep, hostvars, libvars, periph, host_rxdata, host_queue, host_consumed,
                   frames_done, usartpipe, syncpipe, dmavars, dma_forwarded, txvars,
                   timervars>>

Usart0Byte ==
    /\ ~Halted
    /\ host_wire # <<>>
    /\ host_rxdata = <<>>
    /\ host_rxdata' = <<Head(host_wire)>>
    /\ host_wire' = Tail(host_wire)
    /\ UNCHANGED <<pc, primask, sleep, hostvars, libvars, periph, host_queue, host_consumed, frames_done,
                   cmds_sent, usartpipe, syncpipe, dmavars, dma_forwarded, txvars,
                   timervars>>

\* A byte arrives on USART1.  During address detection the hardware takes
\* only a byte that matches the address (Usart1AddressByte).
Usart1Byte ==
    /\ ~Halted
    /\ pc # "wait_address"
    /\ usart_arrived < MaxUsartBytes
    /\ usart_rxdata = <<>>
    /\ usart_rxdata' = <<ByteOn("USART1", usart_arrived + 1)>>
    /\ usart_arrived' = usart_arrived + 1
    /\ UNCHANGED <<pc, primask, sleep, hostvars, libvars, periph, hostpipe,
                   usart_queue, addr_bytes, syncpipe, dmavars, dma_forwarded,
                   txvars, timervars>>

Usart1AddressByte ==
    /\ pc = "wait_address"
    /\ usart_arrived < MaxUsartBytes
    /\ usart_rxdata = <<>>
    /\ usart_rxdata' = <<ByteOn("USART1", usart_arrived + 1)>>
    /\ usart_arrived' = usart_arrived + 1
    /\ UNCHANGED <<pc, primask, sleep, hostvars, libvars, periph, hostpipe,
                   usart_queue, addr_bytes, syncpipe, dmavars, dma_forwarded,
                   txvars, timervars>>

\* USART3 is the synchronous master: bytes are clocked in only while it
\* transmits.
Usart3Byte ==
    /\ pc = "sync_tx"
    /\ sync_arrived < MaxSyncBytes
    /\ sync_rxdata = <<>>
    /\ sync_rxdata' = <<ByteOn("USART3", sync_arrived + 1)>>
    /\ sync_arrived' = sync_arrived + 1
    /\ UNCHANGED <<pc, primask, sleep, hostvars, libvars, periph, hostpipe, usartpipe, sync_queue,
                   dmavars, dma_forwarded, txvars, timervars>>

\* A byte arrives on USART2.  The running transfer stores it in DMA_BUFFER
\* and completes, raising DMA0, when the buffer is full; with no transfer
\* able to take it the byte waits in the receive register.
Usart2Byte(limit) ==
    /\ ~Halted
    /\ dma_arrived < limit
    /\ dma_arrived' = dma_arrived + 1
    /\ IF usart_dma_rx_transfer \in {"Started", "Waiting"}
          /\ Len(dma_buffer) < DMA_BUFFER_LEN
       THEN /\ dma_buffer' = Append(dma_buffer, dma_arrived + 1)
            /\ dma_irq' = (dma_irq \/ (TransferComplete(dma_buffer')
                                        /\ RaisesDma0("channel4")))
            /\ UNCHANGED usart2_rxdata
       ELSE /\ usart2_rxdata = <<>>
            /\ usart2_rxdata' = <<dma_arrived + 1>>
            /\ UNCHANGED <<dma_buffer, dma_irq>>
    /\ UNCHANGED <<pc, primask, sleep, hostvars, libvars, periph, hostpipe, usartpipe, syncpipe,
                   usart_dma_rx_transfer, dma_queue, dma_forwarded, txvars,
                   timervars>>

\* A byte arrives on USART2, the one that completes a transfer only after
\* the idle loop has drained what the last completion enqueued.
Usart2ByteDrained(limit) ==
    /\ Len(dma_buffer) + 1 = DMA_BUFFER_LEN => (dma_queue = <<>> /\ ~dma_irq)
    /\ Usart2Byte(limit)

SysTickWrap ==
    /\ ~Halted
    /\ syst_enabled
    /\ ticks < MaxTicks
    /\ ticks' = ticks + 1
    /\ syst_pending' = TRUE
    /\ UNCHANGED <<pc, primask, sleep, hostvars, libvars, periph, hostpipe, usartpipe, syncpipe, dmavars,
                   dma_forwarded, txvars, syst_enabled, syst_taken, blue,
                   timer_cmd, stray_toggles>>

(***************************************************************************)
(* Interrupt handlers                                                      *)
(***************************************************************************)
\* A panic that returns to the code that raised it.
Panic_returns == UNCHANGED <<pc, primask>> /\ panicked' = TRUE

\* The panic handler: interrupts are disabled and the core spins.
Panic == pc' = "halt" /\ primask' = TRUE /\ panicked' = TRUE

\* Handlers that are given the sender of the host channel.
HandlerResources_with_host_tx(h) == {"host_tx"}

\* The resources of the #[task] attributes of the handlers.
HandlerResources(h) ==
    CASE h = "usart0" -> {"host_rx_int"}
      [] h = "usart1" -> {"usart_rx_int"}
      [] h = "usart3" -> {"usart_sync_rx_int"}
      [] h = "syst" -> {"blue"}
      [] h = "pinint0" -> {"red_int"}
      [] h = "dma0" -> {"usart_dma_rx_transfer", "dma_rx_prod"}

Handlers == {"usart0", "usart1", "usart3", "syst", "pinint0", "dma0"}

usart0 ==
    /\ HandlerRunnable
    /\ host_rxdata # <<>>
    /\ IF RxInt_receive_ok(host_queue, host_rxdata)
       THEN /\ host_queue' = RxInt_receive(host_queue, host_rxdata)
            /\ host_rxdata' = <<>>
            /\ UNCHANGED <<pc, primask, panicked>>
       ELSE /\ Panic
            /\ UNCHANGED <<host_queue, host_rxdata>>
    /\ UNCHANGED <<sleep, hostvars, libvars, devices, host_wire, host_consumed, frames_done, cmds_sent,
                   usartpipe, syncpipe, dmavars, dma_forwarded, txvars,
                   timervars>>

usart1 ==
    /\ HandlerRunnable
    /\ usart_rxdata # <<>>
    /\ IF RxInt_receive_ok(usart_queue, usart_rxdata)
       THEN /\ usart_queue' = RxInt_receive(usart_queue, usart_rxdata)
            /\ usart_rxdata' = <<>>
            /\ UNCHANGED <<pc, primask, panicked>>
       ELSE /\ Panic
            /\ UNCHANGED <<usart_queue, usart_rxdata>>
    /\ UNCHANGED <<sleep, hostvars, libvars, devices, hostpipe, usart_arrived,
                   addr_bytes, syncpipe, dmavars,
                   dma_forwarded, txvars, timervars>>

usart3 ==
    /\ HandlerRunnable
    /\ sync_rxdata # <<>>
    /\ IF RxInt_receive_ok(sync_queue, sync_rxdata)
       THEN /\ sync_queue' = RxInt_receive(sync_queue, sync_rxdata)
            /\ sync_rxdata' = <<>>
            /\ UNCHANGED <<pc, primask, panicked>>
       ELSE /\ Panic
            /\ UNCHANGED <<sync_queue, sync_rxdata>>
    /\ UNCHANGED <<sleep, hostvars, libvars, devices, hostpipe, usartpipe, sync_arrived, dmavars,
                   dma_forwarded, txvars, timervars>>

syst ==
    /\ HandlerRunnable
    /\ syst_pending
    /\ blue' = Toggle(blue)
    /\ syst_pending' = FALSE
    /\ syst_taken' = syst_taken + 1
    /\ stray_toggles' = IF timer_cmd = "started" THEN stray_toggles
                        ELSE stray_toggles + 1
    /\ UNCHANGED <<pc, primask, sleep, hostvars, libvars, periph, hostpipe, usartpipe, syncpipe, dmavars,
                   dma_forwarded, txvars, syst_enabled, ticks, timer_cmd>>

\* The bytes of buffer that queue.enqueue accepts before it reports Full.
Enqueued(q, buffer) ==
    IF Len(q) + Len(buffer) <= DmaQueueCapacity THEN buffer
    ELSE SubSeq(buffer, 1, DmaQueueCapacity - Len(q))

\* A producer that writes over what the consumer has not read yet.
enqueue_all_overwriting(q, buffer) == Enqueued(<<>>, buffer)

\* `for &b in buffer.iter() { queue.enqueue(b) }`: the queue after the
\* loop, up to the first enqueue that fails.
enqueue_all(q, buffer) == q \o Enqueued(q, buffer)

\* transfer.take().unwrap().wait() spins while the channel is active (the
\* handler stays in "Waiting" until the buffer is full); then the buffer is
\* enqueued and the transfer restarted.
dma0 ==
    /\ dma_irq
    /\ \/ HandlerRunnable
       \/ Dma0Blocked /\ TransferComplete(dma_buffer)
    /\ IF usart_dma_rx_transfer = "Started" /\ ~TransferComplete(dma_buffer)
       THEN \* wait() on a transfer that has not completed
            /\ usart_dma_rx_transfer' = "Waiting"
            /\ UNCHANGED <<dma_queue, dma_buffer, usart2_rxdata, dma_irq, pc,
                           primask, panicked>>
       ELSE /\ dma_queue' = enqueue_all(dma_queue, dma_buffer)
            /\ IF usart_dma_rx_transfer \in {"Started", "Waiting"}
                  /\ Len(dma_queue) + Len(dma_buffer) <= DmaQueueCapacity
               THEN \* every enqueue succeeded: restart the transfer
                    /\ usart_dma_rx_transfer' = "Started"
                    /\ dma_buffer' = usart2_rxdata
                    /\ usart2_rxdata' = <<>>
                    /\ dma_irq' = FALSE
                    /\ UNCHANGED <<pc, primask, panicked>>
               ELSE \* enqueue(b).unwrap() panics with the transfer taken
                    /\ usart_dma_rx_transfer' = "None"
                    /\ Panic
                    /\ UNCHANGED <<dma_buffer, usart2_rxdata, dma_irq>>
    /\ UNCHANGED <<sleep, hostvars, libvars, devices, hostpipe, usartpipe, syncpipe, dma_arrived,
                   dma_forwarded, txvars, timervars>>

\* pinint0: clear the edge flags of the input pin.
pinint0 ==
    /\ HandlerRunnable
    /\ red_int
    /\ red_int' = FALSE
    /\ UNCHANGED <<pc, primask, sleep, hostvars, libvars, green, addr_detect, flow,
                   slots, usart_dma_tx, panicked, hostpipe, usartpipe,
                   syncpipe, dmavars, dma_forwarded, txvars, timervars>>

(***************************************************************************)
(* The idle loop                                                           *)
(***************************************************************************)
\* A forwarding that tags every pipeline as Regular.
ModeOf_regular(line) == "Regular"

\* The mode under which idle forwards the data of a receive line.
ModeOf(line) ==
    CASE line = "USART1" -> "Regular"
      [] line = "USART3" -> "Sync"
      [] line = "USART2" -> "Dma"

\* host_tx.send_message(..).unwrap(): the results a send of msgs can have.
SendResults(msgs) == IF msgs = <<>> THEN {TRUE} ELSE BOOLEAN

\* A loop that drains the DMA queue before it looks at USART3.
StatementAfter_dma_first(p) ==
    CASE p = "usart_rx" -> "dma_drain"
      [] p = "dma_drain" -> "usart_sync_rx"
      [] p = "usart_sync_rx" -> "process_message"

\* The statements of the loop body up to the dispatch, in program order.
StatementAfter(p) ==
    CASE p = "usart_rx" -> "usart_sync_rx"
      [] p = "usart_sync_rx" -> "dma_drain"
      [] p = "dma_drain" -> "process_message"

\* usart_rx.process_raw: forward USART1 data as UsartReceive{Regular}.
\* This is the first statement of an iteration; the record of the previous
\* iteration's messages is dropped here.
IdleUsartRx ==
    /\ IdleCanRun
    /\ pc = "usart_rx"
    /\ LET msgs == process_raw(ModeOf("USART1"), usart_queue)
       IN  \E ok \in SendResults(msgs) :
              IF ok
              THEN /\ host_tx' = msgs
                   /\ usart_queue' = <<>>
                   /\ dispatched' = NoCmd
                   /\ tx_before' = 0
                   /\ pc' = StatementAfter("usart_rx")
                   /\ UNCHANGED <<primask, panicked>>
              ELSE /\ Panic
                   /\ UNCHANGED <<host_tx, usart_queue, dispatched, tx_before>>
    /\ UNCHANGED <<sleep, hostvars, libvars, devices, hostpipe, usart_rxdata,
                   usart_arrived, addr_bytes, syncpipe, dmavars, dma_forwarded,
                   timervars>>

\* usart_sync_rx.process_raw: forward USART3 data as UsartReceive{Sync}.
IdleUsartSyncRx ==
    /\ IdleCanRun
    /\ pc = "usart_sync_rx"
    /\ LET msgs == process_raw(ModeOf("USART3"), sync_queue)
       IN  \E ok \in SendResults(msgs) :
              IF ok
              THEN /\ host_tx' = host_tx \o msgs
                   /\ sync_queue' = <<>>
                   /\ pc' = StatementAfter("usart_sync_rx")
                   /\ UNCHANGED <<primask, panicked>>
              ELSE /\ Panic
                   /\ UNCHANGED <<host_tx, sync_queue>>
    /\ UNCHANGED <<sleep, hostvars, libvars, devices, hostpipe, usartpipe, sync_rxdata,
                   sync_arrived, dmavars, dma_forwarded, dispatched,
                   tx_before, timervars>>

\* A drain that may stop while the queue still holds bytes.
DmaDrainEnds_early(q) == TRUE

\* The `while let` ends when dequeue() returns None.
DmaDrainEnds(q) == q = <<>>

\* One turn of `while let Some(b) = usart_dma_cons.dequeue()`.
IdleDmaDequeue ==
    /\ IdleCanRun
    /\ pc = "dma_drain"
    /\ ~DmaDrainEnds(dma_queue)
    /\ dma_queue # <<>>
    /\ \E ok \in BOOLEAN :
          IF ok
          THEN /\ host_tx' = Append(host_tx,
                       UsartReceive(ModeOf("USART2"), <<Head(dma_queue)>>))
               /\ dma_forwarded' = Append(dma_forwarded, Head(dma_queue))
               /\ UNCHANGED <<pc, primask, panicked>>
          ELSE /\ Panic
               /\ UNCHANGED <<host_tx, dma_forwarded>>
    /\ dma_queue' = Tail(dma_queue)
    /\ UNCHANGED <<sleep, hostvars, libvars, devices, hostpipe, usartpipe, syncpipe,
                   dma_arrived, usart2_rxdata, dma_buffer,
                   usart_dma_rx_transfer, dma_irq, dispatched, tx_before,
                   timervars>>

\* dequeue() returned None: the while loop ends.
IdleDmaDrained ==
    /\ IdleCanRun
    /\ pc = "dma_drain"
    /\ DmaDrainEnds(dma_queue)
    /\ pc' = StatementAfter("dma_drain")
    /\ UNCHANGED <<primask, sleep, hostvars, libvars, periph, hostpipe, usartpipe,
                   syncpipe, dmavars, dma_forwarded, txvars, timervars>>

\* host_rx.process_message with no complete frame waiting.
IdleProcessNoFrame ==
    /\ IdleCanRun
    /\ pc = "process_message"
    /\ ~HasFrame(host_queue)
    /\ pc' = "clear_buf"
    /\ UNCHANGED <<primask, sleep, hostvars, libvars, periph, hostpipe, usartpipe, syncpipe, dmavars,
                   dma_forwarded, txvars, timervars>>

\* host_rx.process_message with a frame: decode it and run the closure.
\* SendUsart{Sync} blocks in send_raw (pc "sync_tx"), WaitForAddress blocks
\* in block!(read) with usart_rx_int locked (pc "wait_address"); an
\* unsupported message panics; every other command is completed here.
IdleDispatch ==
    /\ IdleCanRun
    /\ pc = "process_message"
    /\ HasFrame(host_queue)
    /\ LET n == FrameLen(host_queue)
           m == Decode(SubSeq(host_queue, 1, n))
       IN  /\ host_consumed' = n
           /\ frames_done' = frames_done + 1
           /\ dispatched' = m
           /\ tx_before' = Len(host_tx)
           /\ \E outcome \in Outcomes(m) :
                 IF ~Supported(m) \/ slots # AllSlots \/ outcome # "ok"
                 THEN /\ Panic
                      /\ slots' = {}
                      /\ UNCHANGED <<host_tx, syst_enabled, timer_cmd, green,
                                     addr_detect, flow, usart_dma_tx, red_int,
                                     dma_irq>>
                 ELSE /\ pc' = BlockingPc(m)
                      /\ primask' = (m.type = "WaitForAddress")
                      /\ \E b \in ReplyBytes :
                             host_tx' = host_tx \o Reply(m, red, b)
                      /\ syst_enabled' = SystickAfter(m, syst_enabled)
                      /\ timer_cmd' = TimerCmdAfter(m, timer_cmd)
                      /\ green' = GreenAfter(m, green)
                      /\ addr_detect' = (m.type = "WaitForAddress")
                      /\ flow' = FlowDuring(m, flow)
                      /\ slots' = SlotsAfter(m, slots)
                      /\ usart_dma_tx' = DmaTxAfter(m, usart_dma_tx)
                      /\ red_int' = EdgeAfter(red_int, green, GreenAfter(m, green))
                      /\ dma_irq' =
                             (dma_irq \/ (BlockingPc(m) = "clear_buf"
                                 /\ \E ch \in DmaChannelsOf(m) : RaisesDma0(ch)))
                      /\ UNCHANGED panicked
    /\ UNCHANGED <<sleep, hostvars, libvars, host_wire, host_rxdata, host_queue, cmds_sent,
                   usartpipe, syncpipe, dma_arrived, usart2_rxdata, dma_buffer,
                   usart_dma_rx_transfer, dma_queue, dma_forwarded,
                   syst_pending, syst_taken, ticks, blue, stray_toggles>>

\* usart_sync_tx.send_raw returns.
IdleSyncTxDone ==
    /\ IdleCanRun
    /\ pc = "sync_tx"
    /\ pc' = "clear_buf"
    /\ slots' = HandBack(slots)
    /\ UNCHANGED <<primask, sleep, hostvars, libvars, green, addr_detect, flow,
                   usart_dma_tx, red_int, panicked, hostpipe, usartpipe,
                   syncpipe, dmavars, dma_forwarded, txvars, timervars>>

\* transfer.start().wait() returns: the transmit transfer is complete, or
\* it failed and unwrap panics.
IdleDmaTxDone ==
    /\ IdleCanRun
    /\ pc = "dma_tx"
    /\ \E ok \in BOOLEAN :
          IF ok
          THEN /\ pc' = "clear_buf"
               /\ usart_dma_tx' = "idle"
               /\ slots' = HandBack(slots)
               /\ dma_irq' = (dma_irq \/ RaisesDma0("channel3"))
               /\ UNCHANGED <<primask, panicked>>
          ELSE /\ Panic
               /\ UNCHANGED <<usart_dma_tx, slots, dma_irq>>
    /\ UNCHANGED <<sleep, hostvars, libvars, green, addr_detect, flow, red_int,
                   hostpipe, usartpipe, syncpipe, dma_arrived, usart2_rxdata,
                   dma_buffer, usart_dma_rx_transfer, dma_queue,
                   dma_forwarded, txvars, timervars>>

\* usart.bwrite_all returns: flow control is switched off again.
IdleFlowTxDone ==
    /\ IdleCanRun
    /\ pc = "flow_tx"
    /\ pc' = "clear_buf"
    /\ flow' = FlowAfterTx(flow)
    /\ slots' = HandBack(slots)
    /\ UNCHANGED <<primask, sleep, hostvars, libvars, green, addr_detect, usart_dma_tx,
                   red_int, panicked, hostpipe, usartpipe, syncpipe, dmavars,
                   dma_forwarded, txvars, timervars>>

\* A read that leaves the byte in the receive register.
read_peek(rxdata) == rxdata

\* rx.usart.read(): the receive register after the byte has been read.
read(rxdata) == <<>>

\* block!(rx.usart.read()) returns the matching byte; address detection is
\* stopped and the lock released.
IdleAddressMatched ==
    /\ pc = "wait_address"
    /\ usart_rxdata # <<>>
    /\ usart_rxdata' = read(usart_rxdata)
    /\ addr_bytes' = addr_bytes \cup {Head(usart_rxdata)}
    /\ pc' = "clear_buf"
    /\ primask' = FALSE
    /\ addr_detect' = stop_address_detection(addr_detect)
    /\ slots' = HandBack(slots)
    /\ UNCHANGED <<sleep, hostvars, libvars, green, flow, usart_dma_tx, red_int,
                   panicked, hostpipe, usart_queue, usart_arrived, syncpipe, dmavars,
                   dma_forwarded, txvars, timervars>>

\* host_rx.clear_buf()
IdleClearBuf ==
    /\ IdleCanRun
    /\ pc = "clear_buf"
    /\ host_queue' = clear_buf(host_queue, host_consumed)
    /\ host_consumed' = 0
    /\ pc' = "sleep_check"
    /\ UNCHANGED <<primask, sleep, hostvars, libvars, periph, host_wire, host_rxdata, frames_done,
                   cmds_sent, usartpipe, syncpipe, dmavars, dma_forwarded,
                   txvars, timervars>>

\* The condition guarding wfi inside interrupt::free.
NothingToProcess == ~can_process(host_queue) /\ ~can_process_raw(usart_queue)

\* interrupt::free(|_| if ... { wfi }): entering the critical section and
\* evaluating the condition.  Without feature "sleep" the section is empty.
IdleSleepCheck ==
    /\ IdleCanRun
    /\ pc = "sleep_check"
    /\ IF NothingToProcess /\ sleep
       THEN pc' = "wfi" /\ primask' = TRUE
       ELSE pc' = "usart_rx" /\ UNCHANGED primask
    /\ UNCHANGED <<sleep, hostvars, libvars, periph, hostpipe, usartpipe, syncpipe, dmavars,
                   dma_forwarded, txvars, timervars>>

\* wfi returns once an interrupt is pending (masked or not); the critical
\* section ends and the loop starts over.
IdleWfiWake ==
    /\ pc = "wfi"
    /\ IrqPending
    /\ pc' = "usart_rx"
    /\ primask' = FALSE
    /\ UNCHANGED <<sleep, hostvars, libvars, periph, hostpipe, usartpipe, syncpipe, dmavars,
                   dma_forwarded, txvars, timervars>>

(***************************************************************************)
(* The host: Target of the test suites, over one Conn                      *)
(***************************************************************************)
\* Operations that send a command and return (set_pin_high, set_pin_low,
\* send_usart, send_usart_dma, send_usart_sync,
\* send_usart_with_flow_control, wait_for_address).
SendOnlyCmds ==
    { Cmd("SetPin", "High"), Cmd("SetPin", "Low"),
      Cmd("SendUsart", "Regular"), Cmd("SendUsart", "Dma"),
      Cmd("SendUsart", "Sync"), Cmd("SendUsart", "FlowControl"),
      Cmd("WaitForAddress", "None") }

\* Operations that send a command and receive one message (pin_is_high,
\* pin_is_low, start_i2c_transaction[_dma], start_spi_transaction[_dma],
\* read_adc).
RequestCmds ==
    { Cmd("ReadPin", "None"),
      Cmd("StartI2cTransaction", "Regular"), Cmd("StartI2cTransaction", "Dma"),
      Cmd("StartSpiTransaction", "Regular"), Cmd("StartSpiTransaction", "Dma"),
      Cmd("ReadAdc", "None") }

\* Operations that all match on the I2cReply arm.
AcceptedReply_i2c_arm(m) ==
    CASE m.type = "ReadPin" -> "ReadPinResult"
      [] OTHER -> "I2cReply"

\* The message the operation that sent m accepts as its reply.
AcceptedReply(m) ==
    CASE m.type = "ReadPin" -> "ReadPinResult"
      [] m.type = "StartI2cTransaction" -> "I2cReply"
      [] m.type = "StartSpiTransaction" -> "SpiReply"
      [] m.type = "ReadAdc" -> "AdcValue"

\* The value the operation returns in Ok for the reply it accepted.
OkValue(msg) ==
    IF msg.type = "ReadPinResult" THEN msg.level ELSE msg.value

GuardKinds == {"TimerInterrupt", "PwmSignal"}

\* The command start_timer_interrupt / start_pwm_signal sends.
StartFor(kind) ==
    IF kind = "TimerInterrupt" THEN Cmd("StartTimerInterrupt", "None")
    ELSE Cmd("StartPwmSignal", "None")

\* A Drop impl shared by both guards that stops the timer interrupt.
StopFor_timer_only(kind) == Cmd("StopTimerInterrupt", "None")

\* The command the Drop impl of the guard sends.
StopFor(kind) ==
    IF kind = "TimerInterrupt" THEN Cmd("StopTimerInterrupt", "None")
    ELSE Cmd("StopPwmSignal", "None")

\* A start operation that builds the guard whatever the send returned.
GuardAfterStart_unchecked(kind, ok) == kind

\* What start_timer_interrupt / start_pwm_signal leaves live: `?` returns
\* the send error before the guard is built.
GuardAfterStart(kind, ok) == IF ok THEN kind ELSE "none"

\* A Drop impl that discards the result of the send.
DropOutcome_ignored(ok) == "ready"

\* Where the host is after drop: send(..).unwrap() panics on an error.
DropOutcome(ok) == IF ok THEN "ready" ELSE "aborted"

\* Conn::send: the frame is written whole, or the send fails.
Conn_send(wire, m, ok) == IF ok THEN Append(wire, m) ELSE wire

ExitPaths == {"end_of_scope", "early_return", "unwinding"}

\* A Target method can be called only while no guard borrows the Target.
HostReady == host_pc = "ready" /\ guard = "none" /\ ops < MaxOps

HostSendOnly(m) ==
    /\ HostReady
    /\ \E ok \in BOOLEAN :
          /\ h2t' = Conn_send(h2t, m, ok)
          /\ host_result' = IF ok THEN "Ok" ELSE "Send"
    /\ host_op' = m
    /\ host_value' = <<>>
    /\ ops' = ops + 1
    /\ UNCHANGED <<fwvars, libvars, waitvars, t2h, host_pc, guard, guard_log, exit_path,
                   telemetry>>

\* The send of a request; on success the operation goes on to receive.
HostRequest(m) ==
    /\ HostReady
    /\ \E ok \in BOOLEAN :
          /\ h2t' = Conn_send(h2t, m, ok)
          /\ host_result' = IF ok THEN "none" ELSE "Send"
          /\ host_pc' = IF ok THEN "receive" ELSE "ready"
    /\ host_op' = m
    /\ host_value' = <<>>
    /\ ops' = ops + 1
    /\ UNCHANGED <<fwvars, libvars, waitvars, t2h, guard, guard_log, exit_path, telemetry>>

\* Conn::receive returns the next message, which the operation matches
\* against the reply it expects.
HostReceiveMessage ==
    /\ host_pc = "receive"
    /\ t2h # <<>>
    /\ host_result' = IF Head(t2h).type = AcceptedReply(host_op) THEN "Ok"
                      ELSE "UnexpectedMessage"
    /\ host_value' = IF Head(t2h).type = AcceptedReply(host_op)
                     THEN <<OkValue(Head(t2h))>> ELSE <<>>
    /\ t2h' = Tail(t2h)
    /\ host_pc' = "ready"
    /\ UNCHANGED <<fwvars, libvars, waitvars, h2t, host_op, guard, guard_log, exit_path, ops,
                   telemetry>>

\* Conn::receive fails: the timeout elapsed or the port reported an error.
HostReceiveFails ==
    /\ host_pc = "receive"
    /\ host_result' = "Receive"
    /\ host_value' = <<>>
    /\ host_pc' = "ready"
    /\ UNCHANGED <<fwvars, libvars, waitvars, h2t, t2h, host_op, guard, guard_log, exit_path,
                   ops, telemetry>>

HostStartGuard(kind) ==
    /\ HostReady
    /\ \E ok \in BOOLEAN :
          /\ h2t' = Conn_send(h2t, StartFor(kind), ok)
          /\ host_result' = IF ok THEN "Ok" ELSE "Send"
          /\ guard' = GuardAfterStart(kind, ok)
          /\ guard_log' = Append(guard_log, [msg |-> StartFor(kind), ok |-> ok])
    /\ host_op' = StartFor(kind)
    /\ host_value' = <<>>
    /\ ops' = ops + 1
    /\ UNCHANGED <<fwvars, libvars, waitvars, t2h, host_pc, exit_path, telemetry>>

\* The scope holding the guard is left: drop sends the stop command and
\* unwraps the result.
HostDropGuard(path) ==
    /\ host_pc = "ready"
    /\ guard # "none"
    /\ \E ok \in BOOLEAN :
          /\ h2t' = Conn_send(h2t, StopFor(guard), ok)
          /\ host_pc' = DropOutcome(ok)
          /\ guard_log' = Append(guard_log, [msg |-> StopFor(guard), ok |-> ok])
    /\ guard' = "none"
    /\ exit_path' = path
    /\ ops' = ops + 1
    /\ UNCHANGED <<fwvars, libvars, waitvars, t2h, host_op, host_result, host_value, telemetry>>

\* The target at the other end of the connection, reduced to what it
\* answers: the replies of the dispatch, AdcValue for ReadAdc.
TargetReply(m, level, b) ==
    IF m.type = "ReadAdc" THEN <<AdcValue(b)>> ELSE Reply(m, level, b)

TargetServesWith(values) ==
    /\ h2t # <<>>
    /\ \E level \in Levels, b \in values :
          t2h' = t2h \o TargetReply(Head(h2t), level, b)
    /\ h2t' = Tail(h2t)
    /\ UNCHANGED <<fwvars, libvars, waitvars, host_pc, host_op, host_result, host_value, guard,
                   guard_log, exit_path, ops, telemetry>>

TargetServes == TargetServesWith(ReplyBytes)

TargetTelemetry ==
    /\ telemetry < MaxTelemetry
    /\ t2h' = Append(t2h, UsartReceive("Regular", <<1>>))
    /\ telemetry' = telemetry + 1
    /\ UNCHANGED <<fwvars, libvars, waitvars, h2t, host_pc, host_op, host_result, host_value,
                   guard, guard_log, exit_path, ops>>

(***************************************************************************)
(* wait_for_usart_rx, wait_for_usart_rx_dma, wait_for_usart_rx_sync        *)
(***************************************************************************)
\* The modes and data the wait operations are called with.
WaitModes == {"Regular", "Dma"}

WaitData == { <<>>, <<1>>, <<1, 2>> }

\* The call of wait_for_usart_rx_inner for mode.
WaitOp(mode) == [type |-> "wait_for_usart_rx", mode |-> mode]

\* buf.windows(data.len()).any(|window| window == data), for data that is
\* not empty.
windows_any(buf, data) ==
    \E i \in 1..(Len(buf) - Len(data) + 1) :
        SubSeq(buf, i, i + Len(data) - 1) = data

\* The top of the loop: Ok when the data is in buf, else Timeout when the
\* timeout has elapsed since start, else another receive.
WaitVerdict(buf, data, time) ==
    IF windows_any(buf, data) THEN "Ok"
    ELSE IF time > WaitTimeout THEN "Timeout"
    ELSE "receive"

\* buf and start are set up and the loop is entered.
HostWaitStart(mode, data) ==
    /\ host_pc = "ready"
    /\ guard = "none"
    /\ host_op' = WaitOp(mode)
    /\ wait_data' = data
    /\ wait_buf' = <<>>
    /\ elapsed' = 0
    /\ recv_elapsed' = 0
    /\ wait_late' = FALSE
    /\ host_result' = "none"
    /\ host_value' = <<>>
    /\ host_pc' = "wait_check"
    /\ UNCHANGED <<fwvars, libvars, h2t, t2h, guard, guard_log, exit_path, ops,
                   telemetry>>

\* Time passes while the operation runs.
Tick ==
    /\ host_pc \in {"wait_check", "wait_receive"}
    /\ elapsed < MaxElapsed
    /\ elapsed' = elapsed + 1
    /\ recv_elapsed' = IF host_pc = "wait_receive" THEN recv_elapsed + 1
                       ELSE recv_elapsed
    /\ wait_late' = (wait_late \/ (elapsed + 1 > WaitTimeout
                                     /\ wait_data # <<>>
                                     /\ ~windows_any(wait_buf, wait_data)))
    /\ UNCHANGED <<fwvars, libvars, h2t, t2h, host_pc, host_op, host_result,
                   host_value, guard, guard_log, exit_path, ops, telemetry,
                   wait_data, wait_buf>>

\* The two checks at the top of the loop.  windows(0) panics.
HostWaitCheck ==
    /\ host_pc = "wait_check"
    /\ IF wait_data = <<>>
       THEN /\ host_pc' = "aborted"
            /\ UNCHANGED <<host_result, host_value, recv_elapsed>>
       ELSE LET verdict == WaitVerdict(wait_buf, wait_data, elapsed)
            IN  /\ host_pc' = IF verdict = "receive" THEN "wait_receive"
                              ELSE "ready"
                /\ host_result' = IF verdict = "receive" THEN host_result
                                  ELSE verdict
                /\ host_value' = IF verdict = "Ok" THEN <<wait_buf>> ELSE <<>>
                /\ recv_elapsed' = 0
    /\ UNCHANGED <<fwvars, libvars, h2t, t2h, host_op, guard, guard_log, exit_path,
                   ops, telemetry, wait_data, wait_buf, elapsed, wait_late>>

\* Conn::receive returns a message within its own timeout: data of the
\* expected mode extends buf, anything else ends the call.
HostWaitReceive ==
    /\ host_pc = "wait_receive"
    /\ t2h # <<>>
    /\ recv_elapsed <= WaitTimeout
    /\ t2h' = Tail(t2h)
    /\ IF Head(t2h).type = "UsartReceive" /\ Head(t2h).mode = host_op.mode
       THEN /\ wait_buf' = wait_buf \o Head(t2h).data
            /\ host_pc' = "wait_check"
            /\ UNCHANGED host_result
       ELSE /\ host_result' = "UnexpectedMessage"
            /\ host_pc' = "ready"
            /\ UNCHANGED wait_buf
    /\ UNCHANGED <<fwvars, libvars, h2t, host_op, host_value, guard, guard_log,
                   exit_path, ops, telemetry, wait_data, elapsed,
                   recv_elapsed, wait_late>>

\* Conn::receive fails: its timeout elapsed or the port reported an error.
HostWaitReceiveFails ==
    /\ host_pc = "wait_receive"
    /\ host_result' = "Receive"
    /\ host_pc' = "ready"
    /\ UNCHANGED <<fwvars, libvars, h2t, t2h, host_op, host_value, guard, guard_log,
                   exit_path, ops, telemetry, waitvars>>

\* The target forwards received data: one UsartReceive message.
TargetForwards(mode, data) ==
    /\ telemetry < MaxForwarded
    /\ t2h' = Append(t2h, UsartReceive(mode, data))
    /\ telemetry' = telemetry + 1
    /\ UNCHANGED <<fwvars, libvars, waitvars, h2t, host_pc, host_op, host_result,
                   host_value, guard, guard_log, exit_path, ops>>

(***************************************************************************)
(* Specifications                                                          *)
(***************************************************************************)
\* The firmware driven by one host command of any kind, USART1, USART3 and
\* the timer (nothing arrives on USART2).
Next ==
    \/ \E m \in HostToTarget : HostSendsCmd(m, MaxCmds)
    \/ Usart0Byte \/ Usart1Byte \/ Usart1AddressByte \/ Usart3Byte
    \/ SysTickWrap
    \/ usart0 \/ usart1 \/ usart3 \/ syst \/ pinint0
    \/ IdleUsartRx \/ IdleUsartSyncRx \/ IdleDmaDrained
    \/ IdleProcessNoFrame \/ IdleDispatch \/ IdleSyncTxDone
    \/ IdleDmaTxDone \/ IdleFlowTxDone
    \/ IdleAddressMatched \/ IdleClearBuf
    \/ IdleSleepCheck \/ IdleWfiWake

Spec == Init /\ [][Next]_vars

\* The firmware driven by a sequence of pin commands from the host.
PinCmds == {Cmd("SetPin", "High"), Cmd("ReadPin", "None")}

RxNext ==
    \/ \E m \in PinCmds : HostSendsCmd(m, MaxFrames)
    \/ Usart0Byte
    \/ usart0
    \/ IdleUsartRx \/ IdleUsartSyncRx \/ IdleDmaDrained
    \/ IdleProcessNoFrame \/ IdleDispatch \/ IdleClearBuf
    \/ IdleSleepCheck \/ IdleWfiWake

RxSpec == Init /\ [][RxNext]_vars

\* The firmware driven by a sequence of timer commands from the host.
TimerCmds == {Cmd("StartTimerInterrupt", "None"), Cmd("StopTimerInterrupt", "None")}

TimerNext ==
    \/ \E m \in TimerCmds : HostSendsCmd(m, MaxFrames)
    \/ Usart0Byte \/ SysTickWrap
    \/ usart0 \/ syst
    \/ IdleUsartRx \/ IdleUsartSyncRx \/ IdleDmaDrained
    \/ IdleProcessNoFrame \/ IdleDispatch \/ IdleClearBuf
    \/ IdleSleepCheck \/ IdleWfiWake

TimerSpec == Init /\ [][TimerNext]_vars

\* The firmware under a burst on USART2 alone (the host sends nothing).
DmaNext ==
    \/ Usart2Byte(MaxDmaBurst)
    \/ dma0
    \/ IdleUsartRx \/ IdleUsartSyncRx \/ IdleDmaDequeue \/ IdleDmaDrained
    \/ IdleProcessNoFrame \/ IdleClearBuf \/ IdleSleepCheck \/ IdleWfiWake

DmaSpec == Init /\ [][DmaNext]_vars

\* A burst on USART2 that is slow enough for the idle loop to drain the
\* queue between two completions.
DrainNext ==
    \/ Usart2ByteDrained(MaxDmaBurst)
    \/ dma0
    \/ IdleUsartRx \/ IdleUsartSyncRx \/ IdleDmaDequeue \/ IdleDmaDrained
    \/ IdleProcessNoFrame \/ IdleClearBuf \/ IdleSleepCheck \/ IdleWfiWake

DrainSpec == Init /\ [][DrainNext]_vars

\* The pin test: SetPin to either level and ReadPin, in any order.
PinRoundTripCmds ==
    {Cmd("SetPin", "High"), Cmd("SetPin", "Low"), Cmd("ReadPin", "None")}

PinNext ==
    \/ \E m \in PinRoundTripCmds : HostSendsCmd(m, MaxFrames)
    \/ Usart0Byte \/ usart0 \/ pinint0
    \/ IdleUsartRx \/ IdleUsartSyncRx \/ IdleDmaDrained
    \/ IdleProcessNoFrame \/ IdleDispatch
    \/ IdleClearBuf \/ IdleSleepCheck \/ IdleWfiWake

PinSpec == Init /\ [][PinNext]_vars

\* The echo test: SendUsart{Dma} commands of EchoLen bytes each, with the
\* USART1 transmit line wired to the USART2 receive line, so that the bytes
\* of every dispatched command arrive on USART2.
EchoNext ==
    \/ HostSendsCmd(Cmd("SendUsart", "Dma"), MaxEchoCmds)
    \/ Usart0Byte \/ usart0
    \/ Usart2Byte(EchoLen * frames_done)
    \/ dma0
    \/ IdleUsartRx \/ IdleUsartSyncRx \/ IdleDmaDequeue \/ IdleDmaDrained
    \/ IdleProcessNoFrame \/ IdleDispatch \/ IdleDmaTxDone
    \/ IdleClearBuf \/ IdleSleepCheck \/ IdleWfiWake

EchoSpec == Init /\ [][EchoNext]_vars

\* All three telemetry pipelines at work: USART1 data, USART3 data clocked
\* in by SendUsart{Sync}, and one full DMA transfer on USART2.
TelemetryNext ==
    \/ HostSendsCmd(Cmd("SendUsart", "Sync"), MaxCmds)
    \/ Usart0Byte \/ Usart1Byte \/ Usart3Byte \/ Usart2Byte(DMA_BUFFER_LEN)
    \/ usart0 \/ usart1 \/ usart3 \/ dma0
    \/ IdleUsartRx \/ IdleUsartSyncRx \/ IdleDmaDequeue \/ IdleDmaDrained
    \/ IdleProcessNoFrame \/ IdleDispatch \/ IdleSyncTxDone
    \/ IdleClearBuf \/ IdleSleepCheck \/ IdleWfiWake

TelemetrySpec == Init /\ [][TelemetryNext]_vars

\* Transmission with and without flow control.
FlowCmds == {Cmd("SendUsart", "FlowControl"), Cmd("SendUsart", "Regular")}

FlowNext ==
    \/ \E m \in FlowCmds : HostSendsCmd(m, MaxFrames)
    \/ Usart0Byte \/ usart0
    \/ IdleUsartRx \/ IdleUsartSyncRx \/ IdleDmaDrained
    \/ IdleProcessNoFrame \/ IdleDispatch \/ IdleFlowTxDone
    \/ IdleClearBuf \/ IdleSleepCheck \/ IdleWfiWake

FlowSpec == Init /\ [][FlowNext]_vars

\* Commands whose peripheral operation or reply can fail, with USART1
\* telemetry whose send can fail and host bytes that can overflow the
\* receive buffer.
FaultCmds == {Cmd("StartI2cTransaction", "Regular"), Cmd("ReadPin", "None")}

FaultNext ==
    \/ \E m \in FaultCmds : HostSendsCmd(m, MaxFrames)
    \/ Usart0Byte \/ Usart1Byte \/ usart0 \/ usart1
    \/ IdleUsartRx \/ IdleUsartSyncRx \/ IdleDmaDrained
    \/ IdleProcessNoFrame \/ IdleDispatch
    \/ IdleClearBuf \/ IdleSleepCheck \/ IdleWfiWake

FaultSpec == Init /\ [][FaultNext]_vars

\* Commands the LPC845 firmware does not implement, among one it does.
UnsupportedCmds ==
    { Cmd("ReadAdc", "None"), Cmd("StartPwmSignal", "None"),
      Cmd("StopPwmSignal", "None"), Cmd("ReadPin", "None") }

UnsupportedNext ==
    \/ \E m \in UnsupportedCmds : HostSendsCmd(m, MaxFrames)
    \/ Usart0Byte \/ usart0
    \/ IdleUsartRx \/ IdleUsartSyncRx \/ IdleDmaDrained
    \/ IdleProcessNoFrame \/ IdleDispatch
    \/ IdleClearBuf \/ IdleSleepCheck \/ IdleWfiWake

UnsupportedSpec == Init /\ [][UnsupportedNext]_vars

\* Commands that move resources into a transfer or a transmission and get
\* them back, one after another.
ResourceCmds ==
    { Cmd("SendUsart", "Dma"), Cmd("SendUsart", "FlowControl"),
      Cmd("SendUsart", "Sync"), Cmd("StartI2cTransaction", "Dma"),
      Cmd("StartSpiTransaction", "Dma") }

ResourceNext ==
    \/ \E m \in ResourceCmds : HostSendsCmd(m, MaxFrames)
    \/ Usart0Byte \/ usart0
    \/ IdleUsartRx \/ IdleUsartSyncRx \/ IdleDmaDrained
    \/ IdleProcessNoFrame \/ IdleDispatch
    \/ IdleSyncTxDone \/ IdleDmaTxDone \/ IdleFlowTxDone
    \/ IdleClearBuf \/ IdleSleepCheck \/ IdleWfiWake

ResourceSpec == Init /\ [][ResourceNext]_vars

\* The handlers at work (syst is exercised by TimerSpec): one command that
\* runs a DMA transfer, clocks the synchronous USART or makes an edge on
\* the input pin, with data on USART1 and one full receive transfer on
\* USART2.
HandlerCmds ==
    { Cmd("SendUsart", "Dma"), Cmd("StartI2cTransaction", "Dma"),
      Cmd("StartSpiTransaction", "Dma"),
      Cmd("SetPin", "Low"), Cmd("SendUsart", "Sync") }

HandlerNext ==
    \/ \E m \in HandlerCmds : HostSendsCmd(m, MaxCmds)
    \/ Usart0Byte \/ Usart1Byte \/ Usart3Byte \/ Usart2Byte(DMA_BUFFER_LEN)
    \/ usart0 \/ usart1 \/ usart3 \/ pinint0 \/ dma0
    \/ IdleUsartRx \/ IdleUsartSyncRx \/ IdleDmaDequeue \/ IdleDmaDrained
    \/ IdleProcessNoFrame \/ IdleDispatch \/ IdleSyncTxDone \/ IdleDmaTxDone
    \/ IdleClearBuf \/ IdleSleepCheck \/ IdleWfiWake

HandlerSpec == Init /\ [][HandlerNext]_vars

\* The operations that return the value of their reply, against a target
\* that answers with either of two values, with telemetry in between.
ValueCmds ==
    { Cmd("StartI2cTransaction", "Regular"), Cmd("StartI2cTransaction", "Dma"),
      Cmd("StartSpiTransaction", "Regular"), Cmd("StartSpiTransaction", "Dma"),
      Cmd("ReadAdc", "None") }

ReplyValues == {7, 8}

MatchNext ==
    \/ \E m \in ValueCmds : HostRequest(m)
    \/ HostReceiveMessage \/ HostReceiveFails
    \/ TargetServesWith(ReplyValues) \/ TargetTelemetry

MatchSpec == Init /\ [][MatchNext]_vars

\* The wait operations against a target that forwards single bytes, with
\* time passing.
ForwardedData == { <<1>>, <<2>> }

WaitNext ==
    \/ \E mode \in WaitModes, data \in WaitData : HostWaitStart(mode, data)
    \/ Tick
    \/ HostWaitCheck \/ HostWaitReceive \/ HostWaitReceiveFails
    \/ \E mode \in WaitModes, data \in ForwardedData :
          TargetForwards(mode, data)

WaitSpec == Init /\ [][WaitNext]_vars

\* test-lib: one Request is sent and received.
CodecNext ==
    \/ \E r \in Requests : Request_send(r)
    \/ Request_receive

CodecSpec == Init /\ [][CodecNext]_vars

\* test-lib: requests sent back to back and received by consecutive calls.
FramesNext ==
    \/ \E r \in FittingRequests : Request_send_next(r)
    \/ Request_receive
    \/ Request_receive_again

FramesSpec == Init /\ [][FramesNext]_vars

\* host-lib: frames arrive on the channel in reads of any size and are
\* returned by calls of Conn::receive.
ConnNext ==
    \/ \E r \in FittingRequests : ChannelFrame(r)
    \/ \E n \in 1..SEND_BUF_LEN : Conn_read(n)
    \/ Conn_receive
    \/ Conn_receive_timeout

ConnSpec == Init /\ [][ConnNext]_vars

\* SendUsart Dma commands with data of every length.
ScratchNext == \E data \in SendData : SendUsartDma(data)

ScratchSpec == Init /\ [][ScratchNext]_vars

\* StartTimerInterrupt commands with periods of every size.
ReloadNext == \E p \in Periods : StartTimerInterrupt(p)

ReloadSpec == Init /\ [][ReloadNext]_vars

\* test-lib: Request::receive on a line that carries bytes of any value.
StreamNext ==
    \/ \E b \in Bytes : RawByte(b)
    \/ Request_receive

StreamSpec == Init /\ [][StreamNext]_vars

\* The host's Target operations against a target that answers.
HostNext ==
    \/ \E m \in SendOnlyCmds : HostSendOnly(m)
    \/ \E m \in RequestCmds : HostRequest(m)
    \/ HostReceiveMessage \/ HostReceiveFails
    \/ \E kind \in GuardKinds : HostStartGuard(kind)
    \/ \E path \in ExitPaths : HostDropGuard(path)
    \/ TargetServes \/ TargetTelemetry

HostSpec == Init /\ [][HostNext]_vars


(***************************************************************************)
(* Properties                                                              *)
(***************************************************************************)
Last(q) == q[Len(q)]

\* The bytes 1..n in arrival order.
InOrder(n) == [i \in 1..n |-> i]

\* Nothing is left that could forward a DMA byte: no completion interrupt
\* is pending and the queue is drained.
DmaQuiet == ~Halted /\ ~dma_irq /\ dma_queue = <<>>

\* C1: every byte that arrived on USART2 is forwarded to the host as
\* UsartReceive{Dma}, in arrival order, none lost or duplicated: once the
\* DMA path has nothing left to do, the forwarded bytes are exactly the
\* arrived bytes.  (Fails: fewer than DMA_BUFFER_LEN bytes never complete
\* the transfer and stay in DMA_BUFFER.)
C1_AllBytesForwarded == DmaQuiet => dma_forwarded = InOrder(dma_arrived)

\* C2: whenever dma0 is not running, a receive transfer is armed and
\* started.  (Fails: enqueue().unwrap() on a full queue panics after the
\* transfer was taken and before it is restarted.)
C2_TransferAlwaysArmed == usart_dma_rx_transfer = "Started"

\* The host bytes not yet processed: the unconsumed part of the buffer, the
\* bytes the USART holds, and the bytes still on the wire.
Remaining ==
    SubSeq(host_queue, host_consumed + 1, Len(host_queue))
        \o host_rxdata \o host_wire

WholeFrames(q) ==
    /\ Len(q) % 2 = 0
    /\ \A i \in 1..Len(q) : (q[i] = 0) <=> (i % 2 = 0)

\* C3: no command byte is lost: under every interleaving of usart0 with the
\* dispatch iteration, the bytes not yet processed are exactly the frames
\* of the commands sent and not yet dispatched, whole and in order.
C3_NoCommandByteLost ==
    /\ WholeFrames(Remaining)
    /\ frames_done + (Len(Remaining) \div 2) = cmds_sent
    /\ host_consumed <= Len(host_queue)

\* A byte of a later frame was stored during the iteration that dispatched
\* an earlier one, and is still in the buffer after clear_buf.
C3_Witness ==
    /\ pc = "sleep_check"
    /\ frames_done >= 1
    /\ Len(host_queue) = 1
    /\ host_queue[1] # 0

AnyPipelineHoldsData ==
    \/ can_process(host_queue)
    \/ can_process_raw(usart_queue)
    \/ can_process_raw(sync_queue)
    \/ dma_queue # <<>>

\* C4: the loop never suspends in wfi while the host pipeline, the USART1
\* pipeline, the synchronous USART pipeline or the DMA queue holds
\* unprocessed data.  (Fails: the condition looks at the host and USART1
\* pipelines only.)
C4_NoSuspendWithData == pc = "wfi" => ~AnyPipelineHoldsData

\* C5: no missed wakeup: the processor is suspended only inside the
\* critical section, and data a handler added is either seen by the check
\* (the loop did not suspend) or its interrupt is pending and ends the wfi.
\* (Fails with C4: data of usart3 is neither.)
C5_NoMissedWakeup ==
    /\ pc = "wfi" => primask
    /\ (pc = "wfi" /\ ~IrqPending) =>
          /\ ~can_process(host_queue)
          /\ usart_queue = <<>>
          /\ sync_queue = <<>>
          /\ dma_queue = <<>>

\* The messages sent to the host by the dispatch of this iteration.
Replies == SubSeq(host_tx, tx_before + 1, Len(host_tx))

ExpectedReply(m) ==
    CASE m.type = "ReadPin" -> "ReadPinResult"
      [] m.type = "StartI2cTransaction" -> "I2cReply"
      [] m.type = "StartSpiTransaction" -> "SpiReply"
      [] OTHER -> "none"

\* C6: a command dispatched without faulting is answered by exactly one
\* reply of its type for ReadPin, StartI2cTransaction and
\* StartSpiTransaction (both modes), and by no message at all for
\* SendUsart, WaitForAddress, SetPin, StartTimerInterrupt and
\* StopTimerInterrupt.
C6_ReplyDiscipline ==
    (dispatched # NoCmd /\ ~Halted) =>
        IF ExpectedReply(dispatched) = "none"
        THEN Replies = <<>>
        ELSE /\ Len(Replies) = 1
             /\ Replies[1].type = ExpectedReply(dispatched)

C6_Witness ==
    /\ dispatched = Cmd("StartI2cTransaction", "Dma")
    /\ pc = "clear_buf"
    /\ Len(Replies) = 1

\* Replies owed to the host or not yet received by it.
Outstanding ==
    Cardinality({i \in 1..Len(h2t) : h2t[i] \in RequestCmds})
        + Cardinality({i \in 1..Len(t2h) : t2h[i].type # "UsartReceive"})

\* C7: the reply to every command that expects one is consumed by the host
\* before the host issues its next command, also after operations that
\* returned an error and with telemetry interleaved.  (Fails: an operation
\* that times out or receives telemetry returns with its reply unconsumed.)
C7_ReplyConsumedBeforeNextCommand ==
    [][Len(h2t') > Len(h2t) => Outstanding = 0]_vars

IsStart(e) == \E k \in GuardKinds : e.msg = StartFor(k)

IsStop(e) == ~IsStart(e)

\* C8: each guard of a successful start is released by exactly one send of
\* the matching stop command, after the start and never twice, whatever
\* the exit path: in the record of sends, a successful start is the last
\* entry while its guard lives and is otherwise followed at once by its
\* stop, and every stop follows the successful start it matches.
C8_GuardRelease ==
    /\ \A i \in 1..Len(guard_log) :
          \A k \in GuardKinds :
             (guard_log[i].msg = StartFor(k) /\ guard_log[i].ok) =>
                 IF i = Len(guard_log) THEN guard = k
                 ELSE guard_log[i + 1].msg = StopFor(k)
    /\ \A i \in 1..Len(guard_log) :
          IsStop(guard_log[i]) =>
              /\ i > 1
              /\ guard_log[i - 1].ok
              /\ \E k \in GuardKinds :
                    /\ guard_log[i - 1].msg = StartFor(k)
                    /\ guard_log[i].msg = Cmd(IF k = "TimerInterrupt"
                                              THEN "StopTimerInterrupt"
                                              ELSE "StopPwmSignal", "None")

\* A PwmSignal guard was dropped while unwinding and its stop was sent.
C8_Witness ==
    /\ Len(guard_log) = 2
    /\ guard_log[1] = [msg |-> Cmd("StartPwmSignal", "None"), ok |-> TRUE]
    /\ guard_log[2] = [msg |-> Cmd("StopPwmSignal", "None"), ok |-> TRUE]
    /\ exit_path = "unwinding"
    /\ guard = "none"

\* C9: syst toggles the output once per SysTick interrupt, and only
\* between a dispatched StartTimerInterrupt and the next
\* StopTimerInterrupt: no toggle happens while the timer is not started.
C9_TogglesOnlyWhileStarted ==
    /\ stray_toggles = 0
    /\ blue = (IF syst_taken % 2 = 0 THEN "High" ELSE "Low")
    /\ (timer_cmd # "started" => ~syst_pending /\ ~syst_enabled)

\* The timer was started, toggled the output, and was stopped.
C9_Witness ==
    /\ timer_cmd = "stopped"
    /\ syst_taken >= 1
    /\ ticks = MaxTicks

\* C10: a guard lives only after a successful send of its start command;
\* a start whose send failed returned the send error, left no guard, and
\* is not followed by a stop.
C10_GuardOnlyAfterStart ==
    /\ guard # "none" =>
          /\ guard_log # <<>>
          /\ Last(guard_log) = [msg |-> StartFor(guard), ok |-> TRUE]
    /\ \A i \in 1..Len(guard_log) :
          (IsStart(guard_log[i]) /\ ~guard_log[i].ok) =>
              IF i = Len(guard_log)
              THEN /\ guard = "none"
                   /\ host_op = guard_log[i].msg => host_result = "Send"
              ELSE IsStart(guard_log[i + 1])

\* start_pwm_signal failed to send and returned the error.
C10_Witness ==
    /\ guard_log # <<>>
    /\ Last(guard_log) = [msg |-> Cmd("StartPwmSignal", "None"), ok |-> FALSE]
    /\ host_op = Cmd("StartPwmSignal", "None")
    /\ host_result = "Send"
    /\ guard = "none"
    /\ h2t = <<>>

\* C11: a stop command whose send fails in the drop of a guard aborts the
\* host: the failed stop is the last send there is (no retry, no further
\* operation), and the caller sees no error value: the last result it got
\* is the Ok of the start.
C11_DropFailureAborts ==
    /\ \A i \in 1..Len(guard_log) :
          (IsStop(guard_log[i]) /\ ~guard_log[i].ok) =>
              /\ i = Len(guard_log)
              /\ host_pc = "aborted"
              /\ host_result = "Ok"
              /\ guard = "none"
    /\ host_pc = "aborted" =>
          /\ guard_log # <<>>
          /\ IsStop(Last(guard_log))
          /\ ~Last(guard_log).ok

\* The stop of a PwmSignal guard failed to send and the host aborted, the
\* start command being the only one written.
C11_Witness ==
    /\ host_pc = "aborted"
    /\ Len(guard_log) = 2
    /\ guard_log[2] = [msg |-> Cmd("StopPwmSignal", "None"), ok |-> FALSE]
    /\ h2t = <<Cmd("StartPwmSignal", "None")>>

\* C12: after SendUsart{Dma} with the transmit line wired to USART2, the
\* target forwards the echoed bytes as UsartReceive{Dma}, one per byte, in
\* order: once every command sent is dispatched, its bytes have arrived
\* and the DMA path is at rest, the bytes forwarded are the bytes echoed.
\* (Fails with C1: fewer than DMA_BUFFER_LEN bytes stay in DMA_BUFFER.)
C12_EchoForwarded ==
    (/\ cmds_sent >= 1
     /\ frames_done = cmds_sent
     /\ dma_arrived = EchoLen * frames_done
     /\ pc \in {"usart_rx", "wfi"}
     /\ DmaQuiet) => dma_forwarded = InOrder(dma_arrived)

\* The step is the dispatch of a command that did not fault.
Dispatches == frames_done' > frames_done /\ pc' # "halt"

\* C13: the dispatch of SetPin(level) drives the output pin to level,
\* nothing else changes the pin, and the dispatch of ReadPin sends exactly
\* one ReadPinResult carrying the level the wired input pin has at that
\* time; so ReadPin after SetPin(High) answers High, after SetPin(Low) Low.
C13_PinRoundTrip ==
    [][/\ (Dispatches /\ dispatched'.type = "SetPin") =>
              green' = dispatched'.mode
       /\ (Dispatches /\ dispatched'.type = "ReadPin") =>
              SubSeq(host_tx', tx_before' + 1, Len(host_tx'))
                  = <<ReadPinResult(green)>>
       /\ green' # green => (Dispatches /\ dispatched'.type = "SetPin")
      ]_vars

\* SetPin(Low) was applied and the ReadPin after it was answered Low.
C13_Witness ==
    /\ dispatched = Cmd("ReadPin", "None")
    /\ green = "Low"
    /\ Replies = <<ReadPinResult("Low")>>
    /\ frames_done >= 2

\* C14: every UsartReceive message carries only bytes of the line its mode
\* stands for: Regular only USART1 bytes, Sync only USART3 bytes, Dma only
\* USART2 bytes.
C14_TelemetryTagged ==
    \A i \in 1..Len(host_tx) :
        host_tx[i].type = "UsartReceive" =>
            \A j \in 1..Len(host_tx[i].data) :
                LET line == LineOf(host_tx[i].data[j])
                IN  host_tx[i].mode =
                        (CASE line = "USART1" -> "Regular"
                           [] line = "USART3" -> "Sync"
                           [] line = "USART2" -> "Dma")

\* One iteration forwarded data of USART3 and of USART2.
C14_Witness ==
    /\ \E i \in 1..Len(host_tx) :
          host_tx[i] = UsartReceive("Sync", <<ByteOn("USART3", 1)>>)
    /\ \E i \in 1..Len(host_tx) :
          host_tx[i] = UsartReceive("Dma", <<ByteOn("USART2", DMA_BUFFER_LEN)>>)

\* C15: the loop goes on to look for a host command only from the drain
\* and only with the DMA queue empty, and every byte dequeued is sent as
\* one UsartReceive{Dma} message of that byte, bytes leaving the queue in
\* the order they were enqueued.
C15_DrainBeforeCommand ==
    [][/\ (pc # "process_message" /\ pc' = "process_message") =>
              (pc = "dma_drain" /\ dma_queue = <<>>)
       /\ (Len(dma_queue') < Len(dma_queue) /\ pc' # "halt") =>
              /\ dma_queue' = Tail(dma_queue)
              /\ host_tx' = Append(host_tx,
                                   UsartReceive("Dma", <<Head(dma_queue)>>))
              /\ dma_forwarded' = Append(dma_forwarded, Head(dma_queue))
      ]_vars

\* A whole transfer was drained byte by byte before the command lookup.
C15_Witness ==
    /\ pc = "process_message"
    /\ dma_queue = <<>>
    /\ dma_forwarded = InOrder(DMA_BUFFER_LEN)
    /\ Len(host_tx) = DMA_BUFFER_LEN

\* C16: a command is dispatched only when none was dispatched since the
\* last drain of the telemetry pipelines, one frame at a time.
C16_OneCommandPerIteration ==
    [][frames_done' > frames_done =>
          /\ dispatched = NoCmd
          /\ pc = "process_message"
          /\ frames_done' = frames_done + 1
      ]_vars

\* A second complete frame is waiting while the first is being finished.
C16_Witness ==
    /\ pc = "clear_buf"
    /\ dispatched # NoCmd
    /\ host_consumed > 0
    /\ HasFrame(SubSeq(host_queue, host_consumed + 1, Len(host_queue)))

FlowSlots == {"usart_tx", "usart_rts", "usart_rts_pin", "usart_cts"}

\* C18: flow control is on only while the FlowControl command transmits;
\* once it has completed RTS and CTS throttling are off and the USART, the
\* RTS function, the RTS pin and the CTS function are back in their slots,
\* and a Regular transmit runs with flow control off.
C18_FlowControlRestored ==
    /\ flow # FlowOff => pc \in {"flow_tx", "halt"}
    /\ pc = "flow_tx" => flow = FlowOn
    /\ (dispatched = Cmd("SendUsart", "FlowControl")
            /\ pc \in {"clear_buf", "sleep_check", "wfi"}) =>
          (flow = FlowOff /\ FlowSlots \subseteq slots)
    /\ (dispatched = Cmd("SendUsart", "Regular") /\ ~Halted) =>
          flow = FlowOff

\* A FlowControl command has completed and the channel is restored.
C18_Witness ==
    /\ dispatched = Cmd("SendUsart", "FlowControl")
    /\ pc = "sleep_check"
    /\ flow = FlowOff
    /\ slots = AllSlots
    /\ frames_done >= 2

\* C19: the transmit transfer runs exactly while the loop waits for it;
\* during the wait no command is dispatched and nothing is sent to the
\* host; the wait ends only with the transfer complete, and then the DMA
\* channel and the USART are back in their slots.
C19_DmaTransmitBlocks ==
    /\ [](~Halted => (usart_dma_tx = "started" <=> pc = "dma_tx"))
    /\ [][(pc = "dma_tx" /\ pc' # "halt") =>
              /\ host_tx' = host_tx
              /\ frames_done' = frames_done
              /\ \/ pc' = "dma_tx" /\ usart_dma_tx' = "started"
                 \/ /\ pc' = "clear_buf"
                    /\ usart_dma_tx' = "idle"
                    /\ {"usart_dma_chan", "usart_tx"} \subseteq slots'
          ]_vars

\* A transfer has completed while a further command was waiting.
C19_Witness ==
    /\ dispatched = Cmd("SendUsart", "Dma")
    /\ pc = "clear_buf"
    /\ usart_dma_tx = "idle"
    /\ slots = AllSlots
    /\ HasFrame(SubSeq(host_queue, host_consumed + 1, Len(host_queue)))

MessageTypes == {"UsartReceive", "ReadPinResult", "I2cReply", "SpiReply"}

\* C20: a panic halts the firmware; the step that fails sends nothing, a
\* halted firmware sends nothing, dispatches nothing and stays halted, and
\* no message to the host reports a failure.
C20_FailuresAreFatal ==
    /\ [](panicked => Halted)
    /\ [](\A i \in 1..Len(host_tx) : host_tx[i].type \in MessageTypes)
    /\ [][(~Halted /\ pc' = "halt") =>
              (panicked' /\ host_tx' = host_tx)]_vars
    /\ [][Halted =>
              (pc' = "halt" /\ host_tx' = host_tx
                  /\ frames_done' = frames_done)]_vars

\* An I2C operation failed: the firmware is halted and no reply was sent.
C20_Witness ==
    /\ Halted
    /\ panicked
    /\ dispatched = Cmd("StartI2cTransaction", "Regular")
    /\ Replies = <<>>
    /\ host_wire # <<>>

\* C21: the dispatch of a command the firmware does not implement (ReadAdc,
\* StartPwmSignal, StopPwmSignal) halts the firmware and sends nothing, and
\* a halted firmware dispatches no later command and sends nothing.
C21_UnsupportedAborts ==
    /\ [][(frames_done' > frames_done
              /\ dispatched'.type \in {"ReadAdc", "StartPwmSignal",
                                       "StopPwmSignal"}) =>
              (pc' = "halt" /\ host_tx' = host_tx)]_vars
    /\ [][Halted =>
              (pc' = "halt" /\ host_tx' = host_tx
                  /\ frames_done' = frames_done)]_vars

\* StartPwmSignal was dispatched: the firmware is halted, sent no reply and
\* leaves a later command unprocessed.
C21_Witness ==
    /\ Halted
    /\ dispatched = Cmd("StartPwmSignal", "None")
    /\ Replies = <<>>
    /\ HasFrame(SubSeq(host_queue, host_consumed + 1, Len(host_queue)))

\* C22: handlers never block: a handler whose interrupt is taken completes
\* in that step, without a further hardware event; dma0 is entered only
\* with the receive transfer complete, so its wait() never spins, also
\* while the transmit, I2C or SPI channels run a transfer.
C22_HandlersNeverBlock ==
    /\ ~Dma0Blocked
    /\ (HandlerRunnable /\ dma_irq) =>
          (usart_dma_rx_transfer = "Started" /\ Len(dma_buffer) = DMA_BUFFER_LEN)
    /\ (HandlerRunnable /\ dma_irq) => ENABLED dma0
    /\ (HandlerRunnable /\ host_rxdata # <<>>) => ENABLED usart0
    /\ (HandlerRunnable /\ usart_rxdata # <<>>) => ENABLED usart1
    /\ (HandlerRunnable /\ sync_rxdata # <<>>) => ENABLED usart3
    /\ (HandlerRunnable /\ red_int) => ENABLED pinint0

\* dma0 has run to completion while the transmit channel was active: the
\* transfer is enqueued and restarted and the loop still waits.
C22_Witness ==
    /\ pc = "dma_tx"
    /\ usart_dma_tx = "started"
    /\ Len(dma_queue) = DMA_BUFFER_LEN
    /\ ~dma_irq
    /\ usart_dma_rx_transfer = "Started"

\* What the handlers work on besides the buffers and the DMA queue: the
\* receivers of the three USARTs (held by the RxInt resources), the timer
\* output pin, and the receive transfer with its buffer.
HandlerOwned ==
    <<host_rxdata, usart_rxdata, sync_rxdata, blue, usart_dma_rx_transfer,
      dma_buffer>>

\* C23: handlers and the idle loop share only the receive buffers and the
\* DMA queue: a step of the idle loop touches nothing else the handlers
\* work on.  (Fails: idle holds usart_rx_int, the resource of usart1, and
\* for WaitForAddress reads the byte out of the USART1 receiver itself.)
C23_OnlyBuffersShared ==
    [][(pc' # pc /\ pc' # "halt") => UNCHANGED HandlerOwned]_vars

IsPrefix(p, q) == Len(p) <= Len(q) /\ SubSeq(q, 1, Len(p)) = p

\* C24: the DMA queue has one producer and one consumer: it grows only in
\* a step of dma0, which appends at the tail and removes nothing; it
\* shrinks only in a step of the idle loop at its drain, which removes the
\* head and adds nothing; no step does both, and the handler is never
\* entered while an activation of it is in progress.
C24_SingleProducerSingleConsumer ==
    /\ [][/\ Len(dma_queue') > Len(dma_queue) =>
                /\ dma_irq /\ ~primask /\ ~Dma0Blocked
                /\ pc' \in {pc, "halt"}
                /\ IsPrefix(dma_queue, dma_queue')
                /\ dma_forwarded' = dma_forwarded
          /\ Len(dma_queue') < Len(dma_queue) =>
                /\ pc = "dma_drain" /\ IdleCanRun
                /\ dma_queue' = Tail(dma_queue)
                /\ UNCHANGED <<usart_dma_rx_transfer, dma_buffer, dma_irq>>
          /\ Len(dma_queue') = Len(dma_queue) => dma_queue' = dma_queue
         ]_vars
    /\ [](~Dma0Blocked)

\* dma0 has enqueued a second transfer behind bytes the idle loop is in
\* the middle of draining.
C24_Witness ==
    /\ pc = "dma_drain"
    /\ dma_forwarded # <<>>
    /\ Len(dma_queue) > DMA_BUFFER_LEN
    /\ Head(dma_queue) = Len(dma_forwarded) + 1

\* C25: when dma0 finds less free space in the DMA queue than the
\* completed transfer holds, the bytes that fit are enqueued, the rest is
\* dropped, and the receive path keeps running: the transfer is restarted
\* and the firmware does not halt.  (Fails: enqueue(b).unwrap() panics on
\* the first byte that does not fit.)
C25_OverflowDropsBytes ==
    [][(/\ HandlerRunnable /\ dma_irq
        /\ Len(dma_queue) + Len(dma_buffer) > DmaQueueCapacity
        /\ dma_arrived' = dma_arrived
        /\ (pc' # pc \/ dma_queue' # dma_queue \/ dma_irq' # dma_irq)) =>
            /\ dma_queue' = dma_queue \o
                   SubSeq(dma_buffer, 1, DmaQueueCapacity - Len(dma_queue))
            /\ usart_dma_rx_transfer' = "Started"
            /\ pc' # "halt"
      ]_vars

\* The reply start_i2c_transaction, start_spi_transaction and read_adc
\* match on.
MatchingReply(m) ==
    CASE m.type = "StartI2cTransaction" -> "I2cReply"
      [] m.type = "StartSpiTransaction" -> "SpiReply"
      [] m.type = "ReadAdc" -> "AdcValue"
      [] OTHER -> "none"

\* The step is the return of a receive that was attempted.
ReceiveReturns == host_pc = "receive" /\ host_pc' = "ready"

\* C26: a value operation returns Ok(v) only when the first message it
\* receives after its send is its matching reply, carrying v; any other
\* first message gives UnexpectedMessage; a failed receive gives Receive;
\* a failed send gives Send with no receive attempted.
C26_ReplyMatching ==
    /\ [][/\ (ReceiveReturns /\ host_result' = "Ok") =>
                /\ t2h # <<>>
                /\ Head(t2h).type = MatchingReply(host_op)
                /\ host_value' = <<Head(t2h).value>>
                /\ t2h' = Tail(t2h)
          /\ (ReceiveReturns /\ t2h' # t2h
                  /\ Head(t2h).type # MatchingReply(host_op)) =>
                /\ host_result' = "UnexpectedMessage"
                /\ host_value' = <<>>
          /\ (ReceiveReturns /\ t2h' = t2h) =>
                /\ host_result' = "Receive"
                /\ host_value' = <<>>
          /\ (ops' > ops /\ h2t' = h2t) =>
                /\ host_result' = "Send"
                /\ host_pc' = "ready"
                /\ t2h' = t2h
          /\ (ops' > ops /\ h2t' # h2t) =>
                /\ host_pc' = "receive"
                /\ host_result' = "none"
         ]_vars
    /\ [](host_result = "Ok" <=> host_value # <<>>)

\* An operation took a telemetry message for its reply; the operation
\* after it, start_spi_transaction, returned the value its reply carried.
C26_Witness ==
    /\ host_result = "Ok"
    /\ host_op = Cmd("StartSpiTransaction", "Dma")
    /\ host_value = <<8>>
    /\ ops = 2
    /\ telemetry = 1
    /\ t2h = <<>>

IsWait == host_op.type = "wait_for_usart_rx"

\* During a wait operation buf changes only by a received UsartReceive of
\* the expected mode, whose data is appended.
WaitBufIsConcatenation ==
    [][(host_pc \in {"wait_check", "wait_receive"} /\ wait_buf' # wait_buf) =>
          /\ host_pc = "wait_receive"
          /\ t2h # <<>>
          /\ Head(t2h) = UsartReceive(host_op.mode, Head(t2h).data)
          /\ wait_buf' = wait_buf \o Head(t2h).data
          /\ t2h' = Tail(t2h)
      ]_vars

\* C27: a wait operation returns Ok(buf) only with the expected data a
\* contiguous run of buf, the data received during the call, and never
\* when the timeout had elapsed since the call started with the data not
\* yet received.  (Fails: the timeout is looked at only between receives,
\* after the look at buf, so data that completes during a receive begun
\* before the timeout gives Ok after it.)
C27_WaitForUsartRx ==
    (IsWait /\ host_result = "Ok") =>
        /\ host_value = <<wait_buf>>
        /\ windows_any(wait_buf, wait_data)
        /\ ~wait_late

\* The part of C27 that holds: Ok only with the data in buf.
WaitOkOnlyWithData ==
    (IsWait /\ host_result = "Ok") =>
        /\ host_value = <<wait_buf>>
        /\ windows_any(wait_buf, wait_data)

\* C28: no Result-returning Target operation panics, whatever its
\* arguments: a wait operation never aborts the host, also when called
\* with empty data.  (Fails: buf.windows(0) panics.)
C28_OperationsNeverPanic == IsWait => host_pc # "aborted"


\* The bytes Request::receive has taken from the line.
BytesRead == Len(stream) - Len(unread)

\* The value 0 is in q exactly once, as its last element.
ZeroOnlyLast(q) ==
    /\ q # <<>>
    /\ q[Len(q)] = 0
    /\ \A k \in 1..(Len(q) - 1) : q[k] # 0

\* C29: the bytes a successful Request::send wrote hold the value 0 exactly
\* once, as the last byte; and when they fit the buffer of Request::receive,
\* the receive that has read them all returned a Request equal to the one
\* sent, and returns nothing else before.
C29_RoundTrip ==
    send_result = "Ok" =>
        /\ ZeroOnlyLast(stream)
        /\ Len(stream) <= RECEIVE_BUF_LEN =>
            /\ unread = <<>> => rx_result = Ok(request)
            /\ rx_result \in {NoResult, Ok(request)}

C29_Witness ==
    /\ send_result = "Ok"
    /\ request = SendUsart(<<0, 2>>)
    /\ Len(stream) = RECEIVE_BUF_LEN
    /\ rx_result = Ok(request)

\* C30: Request::receive never reads more than buf.len() bytes nor stores
\* past the end of buf; once it has read a frame whose terminating 0 is
\* among the first buf.len() bytes it has read exactly that frame and
\* returned what decoding it gives; when the first buf.len() bytes hold no
\* 0 it returns BufferTooSmall, after exactly buf.len() bytes were read, and
\* nothing else.
C30_BufferBoundary ==
    /\ BytesRead <= RECEIVE_BUF_LEN
    /\ rx_i <= RECEIVE_BUF_LEN
    /\ (FirstZero(stream) <= RECEIVE_BUF_LEN
            /\ BytesRead >= FirstZero(stream)) =>
        /\ BytesRead = FirstZero(stream)
        /\ rx_result = from_bytes_cobs(SubSeq(stream, 1, FirstZero(stream)))
    /\ (FirstZero(stream) > RECEIVE_BUF_LEN /\ rx_result # NoResult) =>
        /\ rx_result = Err("BufferTooSmall")
        /\ BytesRead = RECEIVE_BUF_LEN
    /\ rx_result = Err("BufferTooSmall") =>
        /\ BytesRead = RECEIVE_BUF_LEN
        /\ FirstZero(stream) > RECEIVE_BUF_LEN

C30_Witness ==
    /\ rx_result.kind = "Ok"
    /\ BytesRead = RECEIVE_BUF_LEN
    /\ Len(stream) > RECEIVE_BUF_LEN

\* Index in q of its n-th 0, Len(q) + 1 when it has fewer.
RECURSIVE NthZero(_, _)
NthZero(q, n) ==
    IF n = 0 THEN 0
    ELSE LET before == NthZero(q, n - 1)
         IN  IF before >= Len(q) THEN Len(q) + 1
             ELSE before + FirstZero(SubSeq(q, before + 1, Len(q)))

\* C31: with frames that fit the buffer sent back to back, the k-th call
\* of Request::receive returns the k-th request sent, having read the line
\* up to and including the k-th 0 and not a byte more; the call in
\* progress has not read past the next 0.
C31_SelfDelimiting ==
    /\ \A k \in 1..Len(rx_log) :
        /\ k <= Len(sent)
        /\ rx_log[k].result = Ok(sent[k])
        /\ rx_log[k].read = NthZero(stream, k)
    /\ BytesRead <= NthZero(stream, Len(rx_log) + 1)
    /\ rx_result # NoResult =>
        /\ rx_result = Ok(sent[Len(rx_log) + 1])
        /\ BytesRead = NthZero(stream, Len(rx_log) + 1)

C31_Witness ==
    /\ sent = <<SendUsart(<<0>>), SendUsart(<<1>>)>>
    /\ Len(rx_log) = 1
    /\ rx_log[1].read < Len(stream)
    /\ rx_result = Ok(SendUsart(<<1>>))

\* What the calls of Conn::receive returned, the timeouts left out.
ConnMessages == SelectSeq(conn_msgs, LAMBDA m : m # Err("ReceiveTimeout"))

\* C32: however the reads of the channel split the byte stream, the calls
\* of Conn::receive that return a message return the messages of the
\* frames in the order sent, each equal to the one sent; and the bytes
\* read past the terminators of the frames returned are all in the buffer
\* of the connection, in order.
C32_PartialReadReassembly ==
    /\ Len(ConnMessages) <= Len(sent)
    /\ \A k \in 1..Len(ConnMessages) : ConnMessages[k] = Ok(sent[k])
    /\ conn_buf = SubSeq(stream, NthZero(stream, Len(ConnMessages)) + 1,
                         BytesRead)

\* The second frame was read whole with the first one, in a read that
\* followed a split of the first frame.
C32_Witness ==
    /\ sent = <<SendUsart(<<0>>), SendUsart(<<1>>)>>
    /\ ConnMessages = <<Ok(SendUsart(<<0>>))>>
    /\ Len(conn_msgs) = 1
    /\ HasFrame(conn_buf)
    /\ unread = <<>>

\* C33: whenever idle is not inside a command that has not yet returned
\* (and has not faulted), all eleven resources are in their slots: at the
\* start of every dispatch, where take().unwrap() therefore succeeds, and
\* after every command that has completed.
C33_ResourcesHandedBack ==
    (~Halted /\ pc \notin {"sync_tx", "dma_tx", "flow_tx", "wait_address"})
        => slots = AllSlots

\* The third command dispatched, a transmission by DMA, has completed.
C33_Witness ==
    /\ frames_done = 3
    /\ pc = "clear_buf"
    /\ dispatched = Cmd("SendUsart", "Dma")
    /\ slots = AllSlots

\* C34: when the idle loop drains the DMA queue between any two
\* completions of the receive transfer, the queue never holds more than
\* the bytes of one transfer, which is within its capacity; every enqueue
\* of dma0 succeeds, so dma0 never leaves the transfer taken, which is
\* what its failing unwrap does.
C34_NoOverflowWhenDrained ==
    /\ Len(dma_queue) <= DMA_BUFFER_LEN
    /\ DMA_BUFFER_LEN <= DmaQueueCapacity
    /\ usart_dma_rx_transfer # "None"

\* The third completed transfer has been enqueued after the first two
\* were drained.
C34_Witness ==
    /\ dma_arrived >= 3 * DMA_BUFFER_LEN
    /\ Len(dma_forwarded) = 2 * DMA_BUFFER_LEN
    /\ Len(dma_queue) = DMA_BUFFER_LEN

\* The sequences of qs put end to end.
RECURSIVE Flatten(_)
Flatten(qs) == IF qs = <<>> THEN <<>> ELSE Head(qs) \o Flatten(Tail(qs))

\* C35: the bytes SendUsart Dma commands put on the line are the data of
\* the commands, in order: a command whose data fits the 16 bytes of the
\* scratch buffer (a length of 0 and of 16 included) and whose transfer
\* completes transmits exactly its data; a command with longer data faults
\* and transmits nothing; and no command is dispatched after a fault.
C35_DmaSendExact ==
    LET n == Len(dma_sent)
        front == Flatten(SubSeq(dma_sent, 1, n - 1))
    IN  n > 0 =>
            /\ \A k \in 1..(n - 1) : Len(dma_sent[k]) <= SCRATCH_LEN
            /\ Len(dma_sent[n]) > SCRATCH_LEN =>
                   dma_fault /\ dma_line = front
            /\ (Len(dma_sent[n]) <= SCRATCH_LEN /\ ~dma_fault) =>
                   dma_line = front \o dma_sent[n]

\* A short command after one that filled the scratch buffer.
C35_Witness ==
    /\ ~dma_fault
    /\ Len(dma_sent) = 2
    /\ Len(dma_sent[1]) = SCRATCH_LEN
    /\ Len(dma_sent[2]) = 3
    /\ dma_sent[1][1] # dma_sent[2][1]
    /\ Len(dma_line) = SCRATCH_LEN + 3

\* C36: after StartTimerInterrupt the reload register holds period_ms *
\* 6000, for every period_ms: the product has not left 32 bits, nor the 24
\* bits of the register.  (Fails from 2797 ms on.)
C36_ReloadIsPeriod ==
    reloads > 0 =>
        /\ ~reload_fault
        /\ ~times_6000(period_ms).overflow
        /\ times_6000(period_ms).value.hi < 256
        /\ rvr = times_6000(period_ms).value

\* C37: no handler has host_tx among its resources, and the messages on
\* the host channel change only in a step of the idle loop, taken while no
\* handler can run, which appends whole messages after those already
\* sent: no message is put inside or before another.  (host_tx records one
\* iteration; the first statement of an iteration starts the record anew.)
C37_OnlyIdleSends ==
    /\ [](\A h \in Handlers : "host_tx" \notin HandlerResources(h))
    /\ [][host_tx' # host_tx =>
              /\ IdleCanRun
              /\ pc \in {"usart_rx", "usart_sync_rx", "dma_drain",
                         "process_message"}
              /\ IsPrefix(host_tx, host_tx') \/ pc = "usart_rx"
         ]_vars

\* Telemetry that dma0 enqueued and a reply are on the host channel.
C37_Witness ==
    /\ Len(host_tx) >= 2
    /\ dma_forwarded # <<>>
    /\ dispatched # NoCmd

\* Where a message to the host belongs in an iteration.
Rank(msg) ==
    IF msg.type # "UsartReceive" THEN 4
    ELSE CASE msg.mode = "Regular" -> 1
           [] msg.mode = "Sync" -> 2
           [] msg.mode = "Dma" -> 3

\* C38: the messages of one iteration are in the order Regular telemetry,
\* Sync telemetry, Dma telemetry, reply; there is at most one reply, it is
\* the last message and follows the dispatch of a command in this
\* iteration; and nothing but the reply is sent from the dispatch on, so
\* what a command makes arrive on a test USART is forwarded in a later
\* iteration.
C38_OrderWithinIteration ==
    /\ \A i, j \in 1..Len(host_tx) :
           i < j => /\ Rank(host_tx[i]) <= Rank(host_tx[j])
                    /\ Rank(host_tx[i]) # 4
    /\ \A i \in 1..Len(host_tx) :
           Rank(host_tx[i]) = 4 => (dispatched # NoCmd /\ i = tx_before + 1)
    /\ dispatched # NoCmd =>
           \A i \in (tx_before + 1)..Len(host_tx) : Rank(host_tx[i]) = 4

\* An iteration that has sent Regular and Dma telemetry and the reply to
\* an SPI transaction.
C38_Witness ==
    /\ Len(host_tx) >= 3
    /\ Rank(host_tx[1]) = 1
    /\ Rank(host_tx[2]) = 3
    /\ host_tx[Len(host_tx)].type = "SpiReply"
    /\ dispatched = Cmd("StartSpiTransaction", "Dma")

\* C39: while WaitForAddress is being executed the USART1 receive handler
\* cannot run, and the byte the command reads during address detection is
\* never left in the receive register, never stored in the receive queue
\* and never part of a UsartReceive message sent to the host.
C39_AddressByteConsumed ==
    /\ pc = "wait_address" => (primask /\ ~ENABLED usart1)
    /\ \A b \in addr_bytes :
        /\ \A i \in 1..Len(usart_rxdata) : usart_rxdata[i] # b
        /\ \A i \in 1..Len(usart_queue) : usart_queue[i] # b
        /\ \A i \in 1..Len(host_tx) :
            host_tx[i].type = "UsartReceive" =>
                \A j \in 1..Len(host_tx[i].data) : host_tx[i].data[j] # b

C39_Witness ==
    /\ addr_bytes = {ByteOn("USART1", 1)}
    /\ usart_arrived = 1
    /\ pc = "usart_sync_rx"
    /\ usart_queue = <<>>
====
